---- MODULE Spec2Model ----
(***************************************************************************)
(* Model of sniaff-mitmdump-mcp: the ProxyManager (startProxy, stopProxy,  *)
(* handleProcessExit), the ProcessSupervisor (spawn, kill, exit events),   *)
(* the StateClient (read, updateMitm), the PortFinder and the tool         *)
(* handlers that call them.                                                *)
(*                                                                         *)
(* Node runs the handlers on one thread: a handler runs without            *)
(* interruption until it awaits real I/O (a file read or write, a timer, a *)
(* child-process event).  Each action below is one such uninterrupted run: *)
(* it starts when the awaited I/O completes and ends at the next await.    *)
(* pc[c] names the await a call is suspended on.                           *)
(***************************************************************************)
EXTENDS Integers, Sequences, FiniteSets, TLC

\* ------------------------------------------------------------------ bounds
MaxObjs == 2            \* session objects (and so capture processes) created in one behaviour
MaxFaults == 1          \* injected I/O failures in one behaviour
PortRangeEnd == 8081    \* config.portRangeEnd, scaled down from 8180
MaxLog == 3             \* lines the capture log holds at one time

\* ------------------------------------------------------- program constants
PortRangeStart == 8080  \* config.portRangeStart
SchemaPortMin == 1024   \* StartInputSchema.port.min
SchemaPortMax == 65535  \* StartInputSchema.port.max
Undefined == -1         \* an absent number (JS undefined)
Null == -2              \* JS null

SessionIds == {"s1", "s2"}
Callers == {"c1", "c2"}
\* port arguments a client may send; the schema decides which reach startProxy
CandidatePorts == {0, 9000}
DefaultHost == "0.0.0.0"
UndefinedStr == "undefined"   \* an absent string
NoMessage == <<>>             \* an absent error message
NoObj == 0                    \* no session object / no store bound

VARIABLES
    sessions,       \* ProxyManager.sessions: session id -> session object (NoObj: no entry)
    objs,           \* the ProxySession objects ever created, by object id
    trafficStores,  \* ProxyManager.trafficStores: session id -> store (NoObj: no entry)
    docs,           \* <sessionsDir>/<id>/state.json: the shared document, or NoDoc
    procs,          \* the capture processes ever spawned, by pid
    processes,      \* ProcessSupervisor.processes: the pids it tracks
    exitUpd,        \* per pid: the updateMitm that handleProcessExit left running
    pc,             \* per caller: the await its call is suspended on
    call,           \* per caller: the locals of its call
    result,         \* what the call that returned in the last step returned (else NoResult)
    busy,           \* TCP ports bound by programs other than the capture processes
    faults,         \* I/O failures injected so far
    jsonl,          \* <sessionsDir>/<id>/mitm/traffic.jsonl: the lines of the capture log
    entries,        \* TrafficStore.entries: the records the store has loaded
    lastReadPosition,   \* TrafficStore.lastReadPosition
    cleanup         \* ProxyManager.cleanup: the loop over the session map

vars == <<sessions, objs, trafficStores, docs, procs, processes, exitUpd,
          pc, call, result, busy, faults, jsonl, entries, lastReadPosition, cleanup>>

\* the capture log and the store that reads it
storeVars == <<jsonl, entries, lastReadPosition>>

\* the session whose capture log and store these are
LogSession == "s1"

\* a close that also empties the file
closeTruncating(lines) == [jsonl |-> <<>>, entries |-> <<>>, lastReadPosition |-> 0]

\* TrafficStore.close (lines 680-684): the cache is dropped and the read
\* position reset; the file is not accessed
close(lines) == [jsonl |-> lines, entries |-> <<>>, lastReadPosition |-> 0]

\* an initialize that writes the empty file whether or not one exists
initializeTruncating(lines) == <<>>

\* TrafficStore.initialize (lines 474-482): a file that exists is left as it
\* is; a missing one is created empty (no file and an empty file are both <<>>)
initialize(lines) == lines

\* new TrafficStore (lines 465-472, called at 259-261): the store starts with an
\* empty cache and read position 0 over the file that initialize left
TrafficStore(lines) == [jsonl |-> initialize(lines), entries |-> <<>>, lastReadPosition |-> 0]

\* the log and the cache become those of the record st
StoreBecomes(st) ==
    /\ jsonl' = st.jsonl
    /\ entries' = st.entries
    /\ lastReadPosition' = st.lastReadPosition

\* lines 338-341: `if (trafficStore) await trafficStore.close()`
CloseStoreOf(sid) ==
    IF sid = LogSession /\ trafficStores[sid] # NoObj
    THEN StoreBecomes(close(jsonl))
    ELSE UNCHANGED storeVars

\* lines 259-261: the store of the session is replaced by a new one
NewStoreOf(sid) ==
    IF sid = LogSession
    THEN StoreBecomes(TrafficStore(jsonl))
    ELSE UNCHANGED storeVars

\* ------------------------------------------------------------ shared state
MitmFields == {"status", "proxyPort", "proxyHost", "pid", "androidProxyConfig", "error"}

\* current.mitm when the document has no mitm key: spreading undefined gives no fields
NoMitm ==
    [status |-> UndefinedStr, proxyPort |-> Undefined, proxyHost |-> UndefinedStr,
     pid |-> Undefined, androidProxyConfig |-> Undefined, error |-> NoMessage]

NoDoc == [status |-> "absent", android |-> "absent", mitm |-> NoMitm]

\* the document the peer orchestrator creates
FreshDoc == [status |-> "active", android |-> "a0", mitm |-> NoMitm]

\* { ...current.mitm, ...mitm }: every key of the partial object wins, also one
\* whose value is undefined (JSON.stringify then drops it from the file)
MergeMitm(cur, part) ==
    [f \in MitmFields |-> IF f \in DOMAIN part THEN part[f] ELSE cur[f]]

\* { ...current, mitm: merged }: the whole document as it was READ, with mitm replaced
UpdatedDoc(cur, part) == [cur EXCEPT !.mitm = MergeMitm(cur.mitm, part)]

\* ------------------------------------------------------------- port finder
BoundPorts == busy \cup {procs[i].port : i \in {j \in DOMAIN procs : procs[j].alive}}

\* isPortAvailable: a listener binds iff nothing holds the port at probe time
isPortAvailable(port) == port \notin BoundPorts

\* JS truthiness of `input.port` and of `port`
Falsy(x) == x = Undefined \/ x = Null \/ x = 0

\* z.number().int().min(1024).max(65535).optional()
SchemaAcceptsAnyPort(p) == p = Undefined \/ p >= 0

SchemaAccepts(p) == p = Undefined \/ (p >= SchemaPortMin /\ p <= SchemaPortMax)

PortInputs == {p \in CandidatePorts \cup {Undefined} : SchemaAccepts(p)}

\* --------------------------------------------------------------- messages
ExitMessage(code, signal) == <<"Process exited with code", code, "signal", signal>>
SpawnFailedMessage == <<"Failed to spawn process">>
InitFailedMessage == <<"EACCES traffic.jsonl">>
WriteFailedMessage == <<"Failed to write session state">>
ReadFailedMessage == <<"Failed to read session state">>
NotFoundMessage == <<"Session not found">>

\* ------------------------------------------------------------ call records
\* inPort is input.port; port is the local `port` once resolved.  tried is not a
\* variable of the code: it records the ports findAvailablePort has probed and
\* found taken, so that "at probe time" can be stated.  opts is the input of a
\* store operation, size the stats.size reloadEntries read, cleared the local
\* `cleared` of clear, content its local `content` (the lines it is about to
\* write), before the totalEntries of the tool's statsBefore.
NoCall ==
    [op |-> "none", sid |-> "none", inPort |-> Undefined, port |-> Undefined,
     lo |-> 0, hi |-> 0, probe |-> 0, tried |-> {},
     obj |-> NoObj, pid |-> Null, cur |-> NoDoc, ret |-> "none", err |-> NoMessage,
     opts |-> <<>>, size |-> 0, before |-> 0, cleared |-> 0, content |-> <<>>]

NoResult ==
    [caller |-> "none", op |-> "none", sid |-> "none", kind |-> "none",
     args |-> <<>>, message |-> NoMessage, details |-> {},
     status |-> UndefinedStr, proxyPort |-> Undefined, pid |-> Undefined,
     data |-> <<>>]

\* MitmError.toJSON at the tool boundary: code, message and the keys of details
Failure(op, sid, kind, details) ==
    [NoResult EXCEPT !.op = op, !.sid = sid, !.kind = kind, !.message = <<kind, sid>>,
                     !.details = details]

\* registerStartTool's ok result: fields read from the returned session object
StartOk(sid, o) ==
    [NoResult EXCEPT !.op = "start", !.sid = sid, !.kind = "ok",
                     !.proxyPort = objs[o].proxyPort]

\* registerStatusTool's ok result: fields of the session object, no message field
StatusOk(sid, o, os) ==
    [NoResult EXCEPT !.op = "status", !.sid = sid, !.kind = "ok",
                     !.status = os[o].status, !.proxyPort = os[o].proxyPort,
                     !.pid = os[o].pid]

\* ------------------------------------------------------- session objects
NewSession(sid, port) ==
    [sessionId |-> sid, status |-> "starting", proxyPort |-> port,
     proxyHost |-> DefaultHost, pid |-> Null]

\* existing.status === 'ready' || existing.status === 'starting'
AlreadyRunningOnlyReady(sid) ==
    sessions[sid] # NoObj /\ objs[sessions[sid]].status = "ready"

AlreadyRunning(sid) ==
    sessions[sid] # NoObj /\ objs[sessions[sid]].status \in {"ready", "starting"}

\* a first update that publishes the status alone
MitmPartialWithoutAddress(ret, port, pid, err) ==
    CASE ret = "starting" -> [status |-> "starting"]
      [] ret = "ready" ->
            [status |-> "ready", proxyPort |-> port, proxyHost |-> DefaultHost,
             pid |-> pid, androidProxyConfig |-> port]
      [] ret = "error" -> [status |-> "error", error |-> err]
      [] ret = "stopped" -> [status |-> "stopped", pid |-> Undefined]

\* the partial mitm object each updateMitm call of the manager passes
MitmPartial(ret, port, pid, err) ==
    CASE ret = "starting" ->
            [status |-> "starting", proxyPort |-> port, proxyHost |-> DefaultHost]
      [] ret = "ready" ->
            [status |-> "ready", proxyPort |-> port, proxyHost |-> DefaultHost,
             pid |-> pid, androidProxyConfig |-> port]
      [] ret = "error" -> [status |-> "error", error |-> err]
      [] ret = "stopped" -> [status |-> "stopped", pid |-> Undefined]

Idle(c) == pc[c] = "idle"

\* the startProxy calls that have not yet created their session object
Creating == {c \in Callers : pc[c] \in {"st_read", "scan", "st_mkdir"}}

Return(c, r) ==
    /\ pc' = [pc EXCEPT ![c] = "idle"]
    /\ call' = [call EXCEPT ![c] = NoCall]
    /\ result' = [r EXCEPT !.caller = c]

\* ---------------------------------------------------------------- startProxy
\* lines 186-202: the synchronous check, then the await of stateClient.read
startProxy(c, sid, p) ==
    /\ Idle(c)
    /\ Len(objs) + Cardinality(Creating) < MaxObjs
    /\ IF AlreadyRunning(sid)
       THEN Return(c, Failure("start", sid, "PROXY_ALREADY_RUNNING", {"sessionId", "status"}))
       ELSE /\ pc' = [pc EXCEPT ![c] = "st_read"]
            /\ call' = [call EXCEPT ![c] =
                    [NoCall EXCEPT !.op = "start", !.sid = sid, !.inPort = p]]
            /\ result' = NoResult
    /\ UNCHANGED <<sessions, objs, trafficStores, docs, procs, processes, exitUpd,
                   busy, faults>>
    /\ UNCHANGED <<storeVars, cleanup>>

\* `if (!port) throw PORT_UNAVAILABLE`, else on to the await of ensureMitmDir
PortResolved(c, port) ==
    IF Falsy(port)
    THEN Return(c, Failure(call[c].op, call[c].sid, "PORT_UNAVAILABLE",
                           {"portRangeStart", "portRangeEnd"}))
    ELSE /\ pc' = [pc EXCEPT ![c] = "st_mkdir"]
         /\ call' = [call EXCEPT ![c].port = port]
         /\ result' = NoResult

\* a check against the wrong status
SessionActiveUnlessStopping(doc) == doc.status # "stopping"

\* line 203: sessionState.status !== 'active'
SessionActive(doc) == doc.status = "active"

\* lines 202-215: stateClient.read completes; the status check; the port
startAfterRead(c) ==
    /\ pc[c] = "st_read"
    /\ UNCHANGED faults
    /\ LET sid == call[c].sid
           doc == docs[sid]
       IN  IF doc = NoDoc
           THEN Return(c, Failure("start", sid, "SESSION_NOT_FOUND", {"sessionId"}))
           ELSE IF ~SessionActive(doc)
           THEN Return(c, Failure("start", sid, "SESSION_INVALID_STATE",
                                  {"sessionId", "status"}))
           ELSE IF ~Falsy(call[c].inPort)
           THEN PortResolved(c, call[c].inPort)
           ELSE IF PortRangeStart > PortRangeEnd
           THEN PortResolved(c, Null)
           ELSE /\ pc' = [pc EXCEPT ![c] = "scan"]
                /\ call' = [call EXCEPT ![c].lo = PortRangeStart,
                                        ![c].hi = PortRangeEnd,
                                        ![c].probe = PortRangeStart]
                /\ result' = NoResult
    /\ UNCHANGED <<sessions, objs, trafficStores, docs, procs, processes, exitUpd, busy>>
    /\ UNCHANGED <<storeVars, cleanup>>

\* state-client.ts 44-48: the document is there but readFile or JSON.parse fails
startReadFails(c) ==
    /\ pc[c] = "st_read"
    /\ docs[call[c].sid] # NoDoc
    /\ faults < MaxFaults
    /\ faults' = faults + 1
    /\ Return(c, Failure("start", call[c].sid, "STATE_READ_FAILED", {"sessionId", "statePath"}))
    /\ UNCHANGED <<sessions, objs, trafficStores, docs, procs, processes, exitUpd, busy>>
    /\ UNCHANGED <<storeVars, cleanup>>

\* what findAvailablePort's caller does with the value it returns
FindReturns(c, value) ==
    IF call[c].op = "start"
    THEN PortResolved(c, value)
    ELSE Return(c, [NoResult EXCEPT !.op = "findFree", !.kind = "ok", !.proxyPort = value,
                                    !.args = <<call[c].lo, call[c].hi>>])

\* findAvailablePort, one probe: `if (await isPortAvailable(port)) return port`,
\* then port++ and the loop test
findProbeSkipsLast(c) ==
    /\ pc[c] = "scan"
    /\ LET p == call[c].probe
       IN  IF isPortAvailable(p) /\ p < call[c].hi
           THEN FindReturns(c, p)
           ELSE IF p + 1 > call[c].hi
           THEN FindReturns(c, Null)
           ELSE /\ call' = [call EXCEPT ![c].probe = p + 1, ![c].tried = @ \cup {p}]
                /\ result' = NoResult /\ UNCHANGED <<pc>>

findProbe(c) ==
    /\ pc[c] = "scan"
    /\ LET p == call[c].probe
       IN  IF isPortAvailable(p)
           THEN FindReturns(c, p)
           ELSE IF p + 1 > call[c].hi
           THEN FindReturns(c, Null)
           ELSE /\ call' = [call EXCEPT ![c].probe = p + 1, ![c].tried = @ \cup {p}]
                /\ result' = NoResult /\ UNCHANGED <<pc>>

findAvailablePortStep(c) ==
    /\ findProbe(c)
    /\ UNCHANGED <<sessions, objs, trafficStores, docs, procs, processes, exitUpd,
                   busy, faults>>
    /\ UNCHANGED <<storeVars, cleanup>>

\* lines 228-251: ensureMitmDir completes; the session object is created and put
\* in the map; registerSessionLog (never fails) and updateMitm's read are awaited
startAfterMkdir(c) ==
    /\ pc[c] = "st_mkdir"
    /\ \/ /\ objs' = Append(objs, NewSession(call[c].sid, call[c].port))
          /\ sessions' = [sessions EXCEPT ![call[c].sid] = Len(objs) + 1]
          /\ pc' = [pc EXCEPT ![c] = "upd_read"]
          /\ call' = [call EXCEPT ![c].obj = Len(objs) + 1, ![c].ret = "starting"]
          /\ result' = NoResult /\ UNCHANGED <<faults>>
       \/ \* mkdir fails: a plain Error leaves startProxy, the tool reports INTERNAL_ERROR
          /\ faults < MaxFaults
          /\ faults' = faults + 1
          /\ Return(c, Failure("start", call[c].sid, "INTERNAL_ERROR", {}))
          /\ UNCHANGED <<objs, sessions>>
    /\ UNCHANGED <<trafficStores, docs, procs, processes, exitUpd, busy>>
    /\ UNCHANGED <<storeVars, cleanup>>

\* ------------------------------------------------------------- updateMitm
\* What the manager does when the updateMitm it awaits settles.  ret names the
\* call site: "starting" (line 251, outside the try), "ready" (line 291, inside
\* the try), "error" (line 308, inside the catch), "stopped" (line 349).
UpdateSettled(c, ok, kind, details, msg) ==
    LET sid == call[c].sid
        o == call[c].obj
        ret == call[c].ret
    IN  CASE ret = "starting" /\ ok ->
                \* new TrafficStore(...); await trafficStore.initialize()
                /\ pc' = [pc EXCEPT ![c] = "st_init"]
                /\ call' = [call EXCEPT ![c].cur = NoDoc]
                /\ result' = NoResult /\ UNCHANGED <<objs, sessions>>
          [] ret = "starting" /\ ~ok ->
                \* not inside the try: the state error leaves startProxy as it is
                /\ Return(c, Failure("start", sid, kind, details))
                /\ UNCHANGED <<objs, sessions>>
          [] ret = "ready" /\ ok ->
                /\ Return(c, StartOk(sid, o))
                /\ UNCHANGED <<objs, sessions>>
          [] ret = "ready" /\ ~ok ->
                \* catch: session.status = 'error'; await updateMitm({status, error})
                /\ objs' = [objs EXCEPT ![o].status = "error"]
                /\ pc' = [pc EXCEPT ![c] = "upd_read"]
                /\ call' = [call EXCEPT ![c].ret = "error", ![c].err = msg,
                                        ![c].cur = NoDoc]
                /\ result' = NoResult /\ UNCHANGED <<sessions>>
          [] ret = "error" /\ ok ->
                /\ Return(c, Failure("start", sid, "MITMDUMP_START_FAILED", {"sessionId"}))
                /\ UNCHANGED <<objs, sessions>>
          [] ret = "error" /\ ~ok ->
                \* thrown inside the catch block: it replaces MITMDUMP_START_FAILED
                /\ Return(c, Failure("start", sid, kind, details))
                /\ UNCHANGED <<objs, sessions>>
          [] ret = "stopped" /\ ok ->
                \* unregisterSessionLog; this.sessions.delete(sessionId)
                /\ sessions' = [sessions EXCEPT ![sid] = NoObj]
                /\ Return(c, [NoResult EXCEPT !.op = "stop", !.sid = sid, !.kind = "ok"])
                /\ UNCHANGED objs
          [] ret = "stopped" /\ ~ok ->
                /\ Return(c, Failure("stop", sid, kind, details))
                /\ UNCHANGED <<objs, sessions>>

\* state-client.ts 56: `const current = await this.read(sessionId)` completes
updateMitmRead(c) ==
    /\ pc[c] = "upd_read"
    /\ \/ /\ docs[call[c].sid] # NoDoc
          /\ pc' = [pc EXCEPT ![c] = "upd_write"]
          /\ call' = [call EXCEPT ![c].cur = docs[call[c].sid]]
          /\ result' = NoResult /\ UNCHANGED <<objs, sessions, faults>>
       \/ /\ docs[call[c].sid] = NoDoc
          /\ UpdateSettled(c, FALSE, "SESSION_NOT_FOUND", {"sessionId"}, NotFoundMessage)
          /\ UNCHANGED faults
       \/ \* readFile or JSON.parse fails
          /\ faults < MaxFaults
          /\ faults' = faults + 1
          /\ UpdateSettled(c, FALSE, "STATE_READ_FAILED", {"sessionId", "statePath"},
                           ReadFailedMessage)
    /\ UNCHANGED <<trafficStores, docs, procs, processes, exitUpd, busy>>
    /\ UNCHANGED <<storeVars, cleanup>>

\* state-client.ts 59-75: the merge of what was read, and writeFile completes
updateMitmWrite(c) ==
    /\ pc[c] = "upd_write"
    /\ \/ /\ docs' = [docs EXCEPT ![call[c].sid] =
                    UpdatedDoc(call[c].cur,
                        MitmPartial(call[c].ret, call[c].port, call[c].pid, call[c].err))]
          /\ UpdateSettled(c, TRUE, "none", {}, NoMessage)
          /\ UNCHANGED faults
       \/ \* writeFile fails
          /\ faults < MaxFaults
          /\ faults' = faults + 1
          /\ UpdateSettled(c, FALSE, "STATE_WRITE_FAILED", {"sessionId", "statePath"},
                           WriteFailedMessage)
          /\ UNCHANGED docs
    /\ UNCHANGED <<trafficStores, procs, processes, exitUpd, busy>>
    /\ UNCHANGED <<storeVars, cleanup>>

\* catch (lines 305-311): session.status = 'error', then updateMitm is awaited
StartCatch(c, msg) ==
    /\ objs' = [objs EXCEPT ![call[c].obj].status = "error"]
    /\ pc' = [pc EXCEPT ![c] = "upd_read"]
    /\ call' = [call EXCEPT ![c].ret = "error", ![c].err = msg, ![c].cur = NoDoc]

\* lines 259-284: trafficStore.initialize completes; the store is bound; spawn
\* creates the child and waits for its 100 ms timer
startAfterInit(c) ==
    /\ pc[c] = "st_init"
    /\ \/ /\ trafficStores' = [trafficStores EXCEPT ![call[c].sid] = call[c].obj]
          /\ procs' = Append(procs, [sid |-> call[c].sid, port |-> call[c].port,
                                     alive |-> TRUE, signal |-> "null"])
          /\ processes' = processes \cup {Len(procs) + 1}
          /\ pc' = [pc EXCEPT ![c] = "st_spawn"]
          /\ call' = [call EXCEPT ![c].pid = Len(procs) + 1]
          /\ NewStoreOf(call[c].sid)
          /\ UNCHANGED <<objs, faults>>
       \/ \* the OS creates no process: child.pid is undefined, spawn rejects
          /\ faults < MaxFaults
          /\ faults' = faults + 1
          /\ trafficStores' = [trafficStores EXCEPT ![call[c].sid] = call[c].obj]
          /\ NewStoreOf(call[c].sid)
          /\ StartCatch(c, SpawnFailedMessage)
          /\ UNCHANGED <<procs, processes>>
       \/ \* initialize fails: the store is not bound
          /\ faults < MaxFaults
          /\ faults' = faults + 1
          /\ StartCatch(c, InitFailedMessage)
          /\ UNCHANGED <<trafficStores, procs, processes, storeVars>>
    /\ result' = NoResult /\ UNCHANGED <<sessions, docs, exitUpd, busy>>
    /\ UNCHANGED cleanup

\* process-supervisor.ts 84-88 and 286-291: the 100 ms timer fires; it resolves
\* only if the child has not exited (otherwise nothing settles the promise)
spawnResolve(c) ==
    /\ pc[c] = "st_spawn"
    /\ procs[call[c].pid].alive
    /\ objs' = [objs EXCEPT ![call[c].obj].pid = call[c].pid,
                            ![call[c].obj].status = "ready"]
    /\ pc' = [pc EXCEPT ![c] = "upd_read"]
    /\ call' = [call EXCEPT ![c].ret = "ready", ![c].cur = NoDoc]
    /\ result' = NoResult /\ UNCHANGED <<sessions, trafficStores, docs, procs, processes, exitUpd, busy, faults>>
    /\ UNCHANGED <<storeVars, cleanup>>

\* ----------------------------------------------------------------- stopProxy
\* ProcessSupervisor.isRunning: process.kill(pid, 0)
isRunning(pid) == procs[pid].alive

\* lines 338-349: the store is closed and unbound, the session object is marked
\* stopped, and updateMitm({status: 'stopped', pid: undefined}) is awaited
\* (trafficStore.close() awaits no I/O, so nothing runs in between)
\* a stop that empties the store map instead of deleting its own key
AfterKillClearingStores(c, sid, o) ==
    /\ CloseStoreOf(sid)
    /\ trafficStores' = [s \in SessionIds |-> NoObj]
    /\ objs' = [objs EXCEPT ![o].status = "stopped"]
    /\ pc' = [pc EXCEPT ![c] = "upd_read"]
    /\ call' = [call EXCEPT ![c] =
            [NoCall EXCEPT !.op = "stop", !.sid = sid, !.obj = o, !.ret = "stopped"]]

AfterKill(c, sid, o) ==
    /\ CloseStoreOf(sid)
    /\ trafficStores' = [trafficStores EXCEPT ![sid] = NoObj]
    /\ objs' = [objs EXCEPT ![o].status = "stopped"]
    /\ pc' = [pc EXCEPT ![c] = "upd_read"]
    /\ call' = [call EXCEPT ![c] =
            [NoCall EXCEPT !.op = "stop", !.sid = sid, !.obj = o, !.ret = "stopped"]]

\* a stop that treats a missing session as already stopped
StopWithoutSessionSilent(sid) ==
    [NoResult EXCEPT !.op = "stop", !.sid = sid, !.kind = "ok"]

\* lines 323-329: `if (!session) throw PROXY_NOT_RUNNING`
StopWithoutSession(sid) == Failure("stop", sid, "PROXY_NOT_RUNNING", {"sessionId"})

\* the cache is es with read position pos; the file is untouched
CacheBecomes(es, pos) ==
    /\ jsonl' = jsonl
    /\ entries' = es
    /\ lastReadPosition' = pos

\* lines 321-336: the lookup, and the kill of a recorded pid that is alive; es
\* and pos are the cache of the store of the log at the moment of the call
stopProxyRun(c, sid, es, pos) ==
    /\ IF sessions[sid] = NoObj
       THEN /\ Return(c, StopWithoutSession(sid))
            /\ CacheBecomes(es, pos)
            /\ UNCHANGED <<trafficStores, objs, procs>>
       ELSE LET o == sessions[sid]
                pid == objs[o].pid
            IN  IF pid # Null /\ isRunning(pid) /\ pid \in processes
                THEN \* supervisor.kill: SIGTERM is sent, the exit event is awaited
                     /\ procs' = [procs EXCEPT ![pid].signal = "SIGTERM"]
                     /\ pc' = [pc EXCEPT ![c] = "sp_kill"]
                     /\ call' = [call EXCEPT ![c] =
                            [NoCall EXCEPT !.op = "stop", !.sid = sid, !.obj = o,
                                           !.pid = pid]]
                     /\ CacheBecomes(es, pos)
                     /\ result' = NoResult /\ UNCHANGED <<trafficStores, objs>>
                ELSE /\ AfterKill(c, sid, o)
                     /\ result' = NoResult /\ UNCHANGED <<procs>>
    /\ UNCHANGED <<sessions, docs, processes, exitUpd, busy, faults>>

\* stopProxy is called by a caller that awaits nothing
stopProxyCall(c, sid) ==
    /\ Idle(c)
    /\ stopProxyRun(c, sid, entries, lastReadPosition)

\* a stop issued by a tool call (stop-tool.ts 22)
stopProxy(c, sid) ==
    /\ stopProxyCall(c, sid)
    /\ UNCHANGED cleanup

\* a kill without its timer: it resolves on the exit event only
killWithoutTimeout(c) ==
    /\ pc[c] = "sp_kill"
    /\ FALSE
    /\ UNCHANGED vars

\* process-supervisor.ts 100-107: after 5 s SIGKILL is sent and kill resolves
\* without waiting for the exit
killTimeout(c) ==
    /\ pc[c] = "sp_kill"
    /\ procs[call[c].pid].alive
    /\ procs' = [procs EXCEPT ![call[c].pid].signal = "SIGKILL"]
    /\ AfterKill(c, call[c].sid, call[c].obj)
    /\ result' = NoResult /\ UNCHANGED <<sessions, docs, processes, exitUpd, busy, faults>>
    /\ UNCHANGED cleanup

\* --------------------------------------------------------------- exit events
ExitCode(pid) == IF procs[pid].signal = "null" THEN "1" ELSE "null"

\* handleProcessExit looks the session up by id and tests only its status
ExitedSessionIsReady(sid) ==
    sessions[sid] # NoObj /\ objs[sessions[sid]].status = "ready"

RECURSIVE MarkStopped(_, _)
MarkStopped(os, cs) ==
    IF cs = {} THEN os
    ELSE LET c == CHOOSE x \in cs : TRUE
         IN  MarkStopped([os EXCEPT ![call[c].obj].status = "stopped"], cs \ {c})

\* The child's 'exit' event: the supervisor forgets the pid (line 72), onExit runs
\* handleProcessExit (lines 361-374), and every kill() waiting on this child
\* resolves, so the stopProxy calls awaiting it run on to their updateMitm.
processExit(pid) ==
    /\ pid \in DOMAIN procs
    /\ procs[pid].alive
    /\ LET sid == procs[pid].sid
           crash == ExitedSessionIsReady(sid)
           waiting == {c \in Callers : pc[c] = "sp_kill" /\ call[c].pid = pid}
           objs1 == IF crash THEN [objs EXCEPT ![sessions[sid]].status = "error"] ELSE objs
       IN  /\ procs' = [procs EXCEPT ![pid].alive = FALSE, ![pid].signal = "null"]
           /\ processes' = processes \ {pid}
           /\ objs' = MarkStopped(objs1, waiting)
           /\ exitUpd' = IF crash
                         THEN [exitUpd EXCEPT ![pid] =
                                [phase |-> "read", cur |-> NoDoc,
                                 msg |-> ExitMessage(ExitCode(pid), procs[pid].signal)]]
                         ELSE exitUpd
           /\ trafficStores' = IF waiting # {}
                               THEN [trafficStores EXCEPT ![sid] = NoObj]
                               ELSE trafficStores
           /\ IF waiting # {} THEN CloseStoreOf(sid) ELSE UNCHANGED storeVars
           /\ pc' = [c \in Callers |-> IF c \in waiting THEN "upd_read" ELSE pc[c]]
           /\ call' = [c \in Callers |->
                         IF c \in waiting
                         THEN [NoCall EXCEPT !.op = "stop", !.sid = call[c].sid,
                                             !.obj = call[c].obj, !.ret = "stopped"]
                         ELSE call[c]]
    /\ result' = NoResult /\ UNCHANGED <<sessions, docs, busy, faults>>
    /\ UNCHANGED cleanup

NoExitUpdate == [phase |-> "none", cur |-> NoDoc, msg |-> NoMessage]

\* the un-awaited updateMitm of handleProcessExit: its read
exitUpdateRead(pid) ==
    /\ exitUpd[pid].phase = "read"
    /\ exitUpd' = [exitUpd EXCEPT ![pid] =
            IF docs[procs[pid].sid] = NoDoc
            THEN NoExitUpdate     \* rejected, caught and logged (line 370)
            ELSE [@ EXCEPT !.phase = "write", !.cur = docs[procs[pid].sid]]]
    /\ result' = NoResult /\ UNCHANGED <<sessions, objs, trafficStores, docs, procs, processes, pc, call, busy, faults>>
    /\ UNCHANGED <<storeVars, cleanup>>

\* ... and its write
exitUpdateWrite(pid) ==
    /\ exitUpd[pid].phase = "write"
    /\ docs' = [docs EXCEPT ![procs[pid].sid] =
            UpdatedDoc(exitUpd[pid].cur, [status |-> "error", error |-> exitUpd[pid].msg])]
    /\ exitUpd' = [exitUpd EXCEPT ![pid] = NoExitUpdate]
    /\ result' = NoResult /\ UNCHANGED <<sessions, objs, trafficStores, procs, processes, pc, call, busy, faults>>
    /\ UNCHANGED <<storeVars, cleanup>>

\* ------------------------------------------------------------- traffic log
\* A string of a record is a sequence of one-character strings, so that
\* toLowerCase and includes are computed character by character.
toLowerCase(s) ==
    [i \in DOMAIN s |->
        CASE s[i] = "A" -> "a" [] s[i] = "B" -> "b" [] s[i] = "J" -> "j" [] OTHER -> s[i]]

\* String.prototype.includes
includes(s, t) ==
    \E i \in 0 .. (Len(s) - Len(t)) : \A j \in 1 .. Len(t) : s[i + j] = t[j]

\* a JsonlEntry, with the fields the store reads
Entry(id, ts, method, url, status, ct, reqSize, resSize) ==
    [id |-> id, timestampMs |-> ts,
     request |-> [method |-> method, url |-> url, bodySize |-> reqSize],
     response |-> [status |-> status, contentType |-> ct, bodySize |-> resSize]]

\* the records the capture agent may write
LogEntries ==
    { Entry("e1", 100, "GET",  <<"a", "B">>, 399, <<"J">>,      0, 1),
      Entry("e2", 300, "POST", <<"b", "a">>, 400, <<"j", "s">>, 1, 0),
      Entry("e3", 200, "GET",  <<"A", "b">>, 404, <<"h">>,      0, 2),
      Entry("e4", 300, "GET",  <<"b">>,      499, <<"J", "s">>, 2, 1),
      Entry("e5", 200, "POST", <<"a", "b">>, 500, <<"h">>,      1, 1) }

EntryIds == {e.id : e \in LogEntries} \cup {"e9"}

\* JSON.stringify(e): one line of the file
JsonLine(e) == [json |-> TRUE, entry |-> e]

\* a line that is not JSON (a record the agent has written only in part)
TornLine == [json |-> FALSE, entry |-> <<>>]

LogLines == {JsonLine(e) : e \in LogEntries} \cup {TornLine}

\* a parse that gives up at the first line JSON.parse rejects
RECURSIVE parseLinesUntilMalformed(_)
parseLinesUntilMalformed(lines) ==
    IF lines = <<>> THEN <<>>
    ELSE IF Head(lines).json
    THEN <<Head(lines).entry>> \o parseLinesUntilMalformed(Tail(lines))
    ELSE <<>>

\* reloadEntries 498-508: every line is parsed on its own; a line JSON.parse
\* rejects is skipped
RECURSIVE parseLines(_)
parseLines(lines) ==
    IF lines = <<>> THEN <<>>
    ELSE IF Head(lines).json
    THEN <<Head(lines).entry>> \o parseLines(Tail(lines))
    ELSE parseLines(Tail(lines))

\* clear 645-646: the retained records, one JSON object per line
writeLines(es) == [i \in DOMAIN es |-> JsonLine(es[i])]

\* stats.size, in lines
FileSize(lines) == Len(lines)

\* what a query on an absent filter field sees
NoOptions ==
    [startTimeMs |-> Undefined, endTimeMs |-> Undefined, urlPattern |-> <<>>,
     method |-> UndefinedStr, statusCode |-> Undefined, statusRange |-> <<>>,
     contentType |-> <<>>, limit |-> 0, offset |-> 0]

\* parseInt of one decimal digit
parseInt(ch) ==
    CASE ch = "1" -> 1 [] ch = "2" -> 2 [] ch = "3" -> 3 [] ch = "4" -> 4 [] ch = "5" -> 5

\* a range whose upper end is the next hundred
InStatusRangeUpToNextHundred(status, statusRange) ==
    LET rangeStart == parseInt(statusRange[1]) * 100
        rangeEnd == rangeStart + 100
    IN  status >= rangeStart /\ status <= rangeEnd

\* query 547-549
InStatusRange(status, statusRange) ==
    LET rangeStart == parseInt(statusRange[1]) * 100
        rangeEnd == rangeStart + 99
    IN  status >= rangeStart /\ status <= rangeEnd

\* an exact status code that also counts as matched when the range matches
MatchesCodeOrRange(e, options) ==
    /\ options.startTimeMs # Undefined => e.timestampMs >= options.startTimeMs
    /\ options.endTimeMs # Undefined => e.timestampMs <= options.endTimeMs
    /\ options.urlPattern # <<>> =>
            includes(toLowerCase(e.request.url), toLowerCase(options.urlPattern))
    /\ options.method # UndefinedStr => e.request.method = options.method
    /\ \/ options.statusCode = Undefined /\ options.statusRange = <<>>
       \/ options.statusCode # Undefined /\ e.response.status = options.statusCode
       \/ options.statusRange # <<>> /\ InStatusRange(e.response.status, options.statusRange)
    /\ options.contentType # <<>> =>
            includes(toLowerCase(e.response.contentType), toLowerCase(options.contentType))

\* query 525-555: a record stays iff it passes every filter that is applied; a
\* filter is applied when its option is not undefined (the two times, the status
\* code) or is truthy (the strings: an empty string applies no filter)
Matches(e, options) ==
    /\ options.startTimeMs # Undefined => e.timestampMs >= options.startTimeMs
    /\ options.endTimeMs # Undefined => e.timestampMs <= options.endTimeMs
    /\ options.urlPattern # <<>> =>
            includes(toLowerCase(e.request.url), toLowerCase(options.urlPattern))
    /\ options.method # UndefinedStr => e.request.method = options.method
    /\ options.statusCode # Undefined => e.response.status = options.statusCode
    /\ options.statusRange # <<>> => InStatusRange(e.response.status, options.statusRange)
    /\ options.contentType # <<>> =>
            includes(toLowerCase(e.response.contentType), toLowerCase(options.contentType))

\* a comparator that puts the oldest first
compareOldestFirst(a, b) == a.timestampMs - b.timestampMs

\* query 558: (a, b) => b.timestampMs - a.timestampMs
compare(a, b) == b.timestampMs - a.timestampMs

\* Array.prototype.sort is stable: e goes behind every element that does not
\* compare greater than it
RECURSIVE insertSorted(_, _)
insertSorted(e, s) ==
    IF s = <<>> THEN <<e>>
    ELSE IF compare(Head(s), e) <= 0
    THEN <<Head(s)>> \o insertSorted(e, Tail(s))
    ELSE <<e>> \o s

RECURSIVE sort(_)
sort(s) ==
    IF s = <<>> THEN <<>>
    ELSE insertSorted(s[Len(s)], sort(SubSeq(s, 1, Len(s) - 1)))

Min(a, b) == IF a <= b THEN a ELSE b

\* a slice that starts one element late
sliceAfterStart(s, start, end) == SubSeq(s, start + 2, Min(end, Len(s)))

\* Array.prototype.slice(start, end) for 0 <= start
slice(s, start, end) == SubSeq(s, start + 1, Min(end, Len(s)))

\* query 566-580: the projection to HarEntrySummary
Summary(e) ==
    [id |-> e.id,
     request |-> [method |-> e.request.method, url |-> e.request.url,
                  bodySize |-> e.request.bodySize],
     response |-> [status |-> e.response.status, mimeType |-> e.response.contentType,
                   bodySize |-> e.response.bodySize]]

\* TrafficStore.query on the loaded records es.  filtered and paginated are the
\* locals of the code, kept in the value so that properties can refer to them.
query(es, options) ==
    LET filtered == sort(SelectSeq(es, LAMBDA e : Matches(e, options)))
        paginated == slice(filtered, options.offset, options.offset + options.limit)
    IN  [entries |-> [i \in DOMAIN paginated |-> Summary(paginated[i])],
         total |-> Len(filtered),
         filtered |-> filtered,
         paginated |-> paginated]

\* getEntry 592-628: the conversion to HarEntry
HarEntry(e) ==
    [id |-> e.id, timestampMs |-> e.timestampMs,
     request |-> [method |-> e.request.method, url |-> e.request.url,
                  bodySize |-> e.request.bodySize],
     response |-> [status |-> e.response.status,
                   content |-> [size |-> e.response.bodySize,
                                mimeType |-> e.response.contentType],
                   bodySize |-> e.response.bodySize]]

\* a lookup that takes the first record whatever its id
findFirstRecord(es, entryId) == IF es = <<>> THEN <<>> ELSE <<Head(es)>>

\* Array.prototype.find: the first record whose id is entryId
RECURSIVE find(_, _)
find(es, entryId) ==
    IF es = <<>> THEN <<>>
    ELSE IF Head(es).id = entryId THEN <<Head(es)>>
    ELSE find(Tail(es), entryId)

\* a clear that also drops the records stamped exactly at the threshold
retainedAfterThreshold(es, beforeTimeMs) ==
    IF beforeTimeMs # Undefined
    THEN SelectSeq(es, LAMBDA e : e.timestampMs > beforeTimeMs)
    ELSE <<>>

\* clear 636-640
retained(es, beforeTimeMs) ==
    IF beforeTimeMs # Undefined
    THEN SelectSeq(es, LAMBDA e : e.timestampMs >= beforeTimeMs)
    ELSE <<>>

RECURSIVE sumOf(_, _)
sumOf(es, side) ==
    IF es = <<>> THEN 0 ELSE es[1][side].bodySize + sumOf(Tail(es), side)

\* Date.now() when getStats runs
Clock == {60150, 60250}

\* part_000 44-49: the stats reported when no store is bound
ZeroStats ==
    [totalEntries |-> 0, totalRequestBytes |-> 0, totalResponseBytes |-> 0,
     entriesLast60s |-> 0]

\* stats that count only the records of the last minute
getStatsOfLastMinute(es, nowMs) ==
    LET recent == SelectSeq(es, LAMBDA e : e.timestampMs >= nowMs - 60000)
    IN  [totalEntries |-> Len(recent),
         totalRequestBytes |-> sumOf(recent, "request"),
         totalResponseBytes |-> sumOf(recent, "response"),
         entriesLast60s |-> Len(recent)]

\* getStats 657-677
getStats(es, nowMs) ==
    [totalEntries |-> Len(es),
     totalRequestBytes |-> sumOf(es, "request"),
     totalResponseBytes |-> sumOf(es, "response"),
     entriesLast60s |-> Len(SelectSeq(es, LAMBDA e : e.timestampMs >= nowMs - 60000))]

\* What the operation that awaited reloadEntries does when it returns, es being
\* the records the store then holds and pos its read position.  call[c].ret names
\* the stage of mitm.clear: getStats ("before"), clear ("clear"), getStats ("after").
AfterReload(c, es, pos) ==
    LET sid == call[c].sid
        op == call[c].op
        st == call[c].ret
    IN  CASE op = "status" ->
                \* getStats returns; part_000 31-56 builds the result
                /\ \E nowMs \in Clock :
                      Return(c, [StatusOk(sid, call[c].obj, objs)
                                    EXCEPT !.data = getStats(es, nowMs)])
                /\ entries' = es /\ lastReadPosition' = pos
          [] op = "query" ->
                /\ Return(c, [NoResult EXCEPT !.op = "query", !.sid = sid, !.kind = "ok",
                                              !.args = call[c].opts,
                                              !.data = query(es, call[c].opts)])
                /\ entries' = es /\ lastReadPosition' = pos
          [] op = "getEntry" ->
                \* getEntry returns null: part_001 108-114 throws ENTRY_NOT_FOUND
                /\ LET found == find(es, call[c].opts)
                   IN  IF found = <<>>
                       THEN Return(c, [Failure("getEntry", sid, "ENTRY_NOT_FOUND",
                                               {"sessionId", "entryId"})
                                          EXCEPT !.args = call[c].opts])
                       ELSE Return(c, [NoResult EXCEPT !.op = "getEntry", !.sid = sid,
                                                       !.kind = "ok",
                                                       !.args = call[c].opts,
                                                       !.data = HarEntry(found[1])])
                /\ entries' = es /\ lastReadPosition' = pos
          [] op = "clear" /\ st = "before" ->
                \* statsBefore is there; clear starts with its own reloadEntries
                /\ pc' = [pc EXCEPT ![c] = "rl_stat"]
                /\ call' = [call EXCEPT ![c].ret = "clear", ![c].before = Len(es)]
                /\ result' = NoResult
                /\ entries' = es /\ lastReadPosition' = pos
          [] op = "clear" /\ st = "clear" ->
                \* clear 634-646: this.entries is filtered; writeFile is awaited
                /\ pc' = [pc EXCEPT ![c] = "clr_write"]
                /\ call' = [call EXCEPT ![c].cleared =
                                Len(es) - Len(retained(es, call[c].opts)),
                                        ![c].content =
                                writeLines(retained(es, call[c].opts))]
                /\ result' = NoResult
                /\ entries' = retained(es, call[c].opts) /\ lastReadPosition' = pos
          [] op = "clear" /\ st = "after" ->
                \* statsAfter is there; query-tool.ts 163-181 builds the result
                /\ Return(c, [NoResult EXCEPT !.op = "clear", !.sid = sid, !.kind = "ok",
                                              !.args = call[c].opts,
                                              !.data = [entriesCleared |-> call[c].cleared,
                                                        entriesRemaining |-> Len(es),
                                                        entriesBefore |-> call[c].before]])
                /\ entries' = es /\ lastReadPosition' = pos

\* reloadEntries 489-497: fs.stat completes; the cache is kept when the file has
\* not grown past lastReadPosition, else readFile is awaited
StatCompleted(c) ==
    IF FileSize(jsonl) <= lastReadPosition
    THEN AfterReload(c, entries, lastReadPosition)
    ELSE /\ pc' = [pc EXCEPT ![c] = "rl_read"]
         /\ call' = [call EXCEPT ![c].size = FileSize(jsonl)]
         /\ result' = NoResult
         /\ UNCHANGED <<entries, lastReadPosition>>

reloadStat(c) ==
    /\ pc[c] = "rl_stat"
    /\ StatCompleted(c)
    /\ UNCHANGED <<sessions, objs, trafficStores, docs, procs, processes, exitUpd,
                   busy, faults, jsonl, cleanup>>

\* a reload that parses only what lies behind the read position
reparseAppended(lines, pos) == parseLines(SubSeq(lines, pos + 1, Len(lines)))

\* reloadEntries 497-508: this.entries = [] and every line of the content that
\* was read is parsed, whatever the read position was
reparse(lines, pos) == parseLines(lines)

\* reloadEntries 497-511: readFile completes; the whole file is parsed and the
\* read position becomes the size that fs.stat had returned
reloadRead(c) ==
    /\ pc[c] = "rl_read"
    /\ AfterReload(c, reparse(jsonl, lastReadPosition), call[c].size)
    /\ UNCHANGED <<sessions, objs, trafficStores, docs, procs, processes, exitUpd,
                   busy, faults, jsonl, cleanup>>

\* a store operation is called by its tool: no store bound for the session id
\* is PROXY_NOT_RUNNING, else the operation awaits reloadEntries
StoreCall(c, op, sid, opts, stage) ==
    /\ Idle(c)
    /\ IF trafficStores[sid] = NoObj
       THEN Return(c, Failure(op, sid, "PROXY_NOT_RUNNING", {"sessionId"}))
       ELSE /\ pc' = [pc EXCEPT ![c] = "rl_stat"]
            /\ call' = [call EXCEPT ![c] =
                    [NoCall EXCEPT !.op = op, !.sid = sid, !.opts = opts, !.ret = stage]]
            /\ result' = NoResult
    /\ UNCHANGED <<sessions, objs, trafficStores, docs, procs, processes, exitUpd,
                   busy, faults, storeVars, cleanup>>

\* query-tool.ts 27-67 (mitm.query)
queryTool(c, sid, options) == StoreCall(c, "query", sid, options, "none")

\* part_001 94-106 (mitm.get_entry)
getEntryTool(c, sid, entryId) == StoreCall(c, "getEntry", sid, entryId, "none")

\* query-tool.ts 139-159 (mitm.clear): beforeTimeMs is the threshold the handler
\* computed, Undefined when the caller gave none
clearTool(c, sid, beforeTimeMs) == StoreCall(c, "clear", sid, beforeTimeMs, "before")

\* clear 644-648: writeFile completes (the file now holds the lines that were
\* built from the retained records before the write was awaited); fs.stat is
\* awaited
clearWrite(c) ==
    /\ pc[c] = "clr_write"
    /\ jsonl' = call[c].content
    /\ pc' = [pc EXCEPT ![c] = "clr_stat"]
    /\ result' = NoResult
    /\ UNCHANGED <<sessions, objs, trafficStores, docs, procs, processes, exitUpd,
                   call, busy, faults, entries, lastReadPosition, cleanup>>

\* clear 648-651 and query-tool.ts 160-161: fs.stat completes; the read position
\* becomes the size of the file as it is now; clear returns and getStats is awaited
clearStat(c) ==
    /\ pc[c] = "clr_stat"
    /\ lastReadPosition' = FileSize(jsonl)
    /\ pc' = [pc EXCEPT ![c] = "rl_stat"]
    /\ call' = [call EXCEPT ![c].ret = "after"]
    /\ result' = NoResult
    /\ UNCHANGED <<sessions, objs, trafficStores, docs, procs, processes, exitUpd,
                   busy, faults, jsonl, entries, cleanup>>

\* the capture agent appends a line to the log
agentAppend(line) ==
    /\ Len(jsonl) < MaxLog
    /\ \A i \in DOMAIN jsonl : jsonl[i] # line
    /\ jsonl' = Append(jsonl, line)
    /\ result' = NoResult
    /\ UNCHANGED <<sessions, objs, trafficStores, docs, procs, processes, exitUpd,
                   pc, call, busy, faults, entries, lastReadPosition, cleanup>>

\* --------------------------------------------------------------- mitm.status
\* part_000 18-29: the session and the store are looked up; getStats is awaited
\* when a store is bound
statusTool(c, sid) ==
    /\ Idle(c)
    /\ IF sessions[sid] = NoObj
       THEN Return(c, Failure("status", sid, "PROXY_NOT_RUNNING", {"sessionId"}))
       ELSE IF trafficStores[sid] = NoObj
       THEN Return(c, [StatusOk(sid, sessions[sid], objs) EXCEPT !.data = ZeroStats])
       ELSE /\ pc' = [pc EXCEPT ![c] = "status_stats"]
            /\ call' = [call EXCEPT ![c] =
                    [NoCall EXCEPT !.op = "status", !.sid = sid, !.obj = sessions[sid]]]
            /\ result' = NoResult
    /\ UNCHANGED <<sessions, objs, trafficStores, docs, procs, processes, exitUpd,
                   busy, faults>>
    /\ UNCHANGED <<storeVars, cleanup>>

\* getStats' fs.stat completes; when the file has not grown, part_000 31-56
\* builds the result from the session object as it is now
statusAfterStats(c) ==
    /\ pc[c] = "status_stats"
    /\ StatCompleted(c)
    /\ UNCHANGED <<sessions, objs, trafficStores, docs, procs, processes, exitUpd,
                   busy, faults>>
    /\ UNCHANGED <<jsonl, cleanup>>

\* -------------------------------------------------------------------- peers
\* the orchestrator creates the document (core.start_session)
peerCreate(sid) ==
    /\ docs[sid] = NoDoc
    /\ docs' = [docs EXCEPT ![sid] = FreshDoc]
    /\ result' = NoResult /\ UNCHANGED <<sessions, objs, trafficStores, procs, processes, exitUpd, pc, call, busy, faults>>
    /\ UNCHANGED <<storeVars, cleanup>>

\* a peer subsystem rewrites a field it owns
peerWrite(sid, st, a) ==
    /\ docs[sid] # NoDoc
    /\ <<st, a>> # <<docs[sid].status, docs[sid].android>>
    /\ docs' = [docs EXCEPT ![sid].status = st, ![sid].android = a]
    /\ result' = NoResult /\ UNCHANGED <<sessions, objs, trafficStores, procs, processes, exitUpd, pc, call, busy, faults>>
    /\ UNCHANGED <<storeVars, cleanup>>

\* ------------------------------------------------------------------ cleanup
\* the state of ProxyManager.cleanup's loop; atStart, attempted and logged are not
\* variables of the code: they record the keys of the map when cleanup was called,
\* the keys stopProxy was called for, and the keys whose failure was logged
NoCleanup ==
    [phase |-> "none", current |-> "none", atStart |-> {}, attempted |-> {}, logged |-> {}]

\* the keys of the sessions map
Tracked == {s \in SessionIds : sessions[s] # NoObj}

\* line 389: the iterator of the Map yields the keys in insertion order and is
\* live: a key stopProxy has deleted is gone, a key it has left is not visited
\* again.  The session objects are numbered in the order of their insertion.
NextKey(visited) ==
    LET rest == Tracked \ visited
    IN  CHOOSE s \in rest : \A t \in rest : sessions[s] <= sessions[t]

\* a loop that lets the failure of a stop escape
cleanupRethrow(r) == IF r.kind = "ok" THEN "next" ELSE "raised"

\* lines 390-396: try { await this.stopProxy(sessionId) } catch (error) {
\* logger.error(...); unregisterSessionLog(sessionId) }
cleanupCatch(r) == IF r.kind = "ok" THEN "next" ELSE "logged"

\* the head of the loop: stopProxy is called for the next key, or the iterator
\* is exhausted and cleanup returns
cleanupIterate(c, atStart, visited, logged) ==
    IF Tracked \ visited = {}
    THEN /\ cleanup' = [phase |-> "done", current |-> "none", atStart |-> atStart,
                        attempted |-> visited, logged |-> logged]
         /\ Return(c, [NoResult EXCEPT !.op = "cleanup", !.kind = "ok"])
         /\ UNCHANGED <<sessions, objs, trafficStores, docs, procs, processes,
                        exitUpd, busy, faults, storeVars>>
    ELSE LET sid == NextKey(visited)
         IN  /\ stopProxyCall(c, sid)
             /\ cleanup' = [phase |-> "running", current |-> sid, atStart |-> atStart,
                            attempted |-> visited \cup {sid}, logged |-> logged]

\* stop-tool.ts 118-126 and lines 388-390: shutdown runs once (isShuttingDown)
\* and awaits cleanup(), which starts its loop
cleanupStart(c) ==
    /\ cleanup.phase = "none"
    /\ Idle(c)
    /\ cleanupIterate(c, Tracked, {}, {})

\* the stopProxy that cleanup awaits has settled and the loop has not yet run on
cleanupResumes == cleanup.phase = "running" /\ result.op = "stop"

\* lines 390-397: the awaited stopProxy has returned or thrown; a throw is caught
\* and logged, and the loop goes on with the next key
cleanupLoop(c) ==
    /\ cleanupResumes
    /\ result.caller = c
    /\ Idle(c)
    /\ LET outcome == cleanupCatch(result)
       IN  IF outcome = "raised"
           THEN /\ cleanup' = [cleanup EXCEPT !.phase = "raised", !.current = "none"]
                /\ Return(c, [result EXCEPT !.op = "cleanup"])
                /\ UNCHANGED <<sessions, objs, trafficStores, docs, procs, processes,
                               exitUpd, busy, faults, storeVars>>
           ELSE cleanupIterate(c, cleanup.atStart, cleanup.attempted,
                               IF outcome = "logged"
                               THEN cleanup.logged \cup {cleanup.current}
                               ELSE cleanup.logged)

\* a manager whose capture log is empty and whose store has loaded nothing
LogEmpty ==
    /\ jsonl = <<>>
    /\ entries = <<>>
    /\ lastReadPosition = 0

\* ------------------------------------------------------------ specification
BusyChoices == {{}, PortRangeStart .. PortRangeEnd}
LifeSessions == {"s1"}
\* the client of Spec issues one call at a time
SeqCallers == {"c1"}

Init ==
    /\ sessions = [s \in SessionIds |-> NoObj]
    /\ objs = <<>>
    /\ trafficStores = [s \in SessionIds |-> NoObj]
    /\ docs = [s \in SessionIds |-> NoDoc]
    /\ procs = <<>>
    /\ processes = {}
    /\ exitUpd = [p \in 1 .. MaxObjs |-> NoExitUpdate]
    /\ pc = [c \in Callers |-> "idle"]
    /\ call = [c \in Callers |-> NoCall]
    /\ result = NoResult
    /\ busy \in BusyChoices
    /\ faults = 0
    /\ LogEmpty
    /\ cleanup = NoCleanup

Next ==
    \/ \E c \in SeqCallers, sid \in LifeSessions, p \in PortInputs : startProxy(c, sid, p)
    \/ \E c \in SeqCallers : startAfterRead(c)
    \/ \E c \in SeqCallers : startReadFails(c)
    \/ \E c \in SeqCallers : findAvailablePortStep(c)
    \/ \E c \in SeqCallers : startAfterMkdir(c)
    \/ \E c \in SeqCallers : updateMitmRead(c)
    \/ \E c \in SeqCallers : updateMitmWrite(c)
    \/ \E c \in SeqCallers : startAfterInit(c)
    \/ \E c \in SeqCallers : spawnResolve(c)
    \/ \E c \in SeqCallers, sid \in LifeSessions : stopProxy(c, sid)
    \/ \E c \in SeqCallers : killTimeout(c)
    \/ \E pid \in 1 .. MaxObjs : processExit(pid)
    \/ \E pid \in 1 .. MaxObjs : exitUpdateRead(pid)
    \/ \E pid \in 1 .. MaxObjs : exitUpdateWrite(pid)
    \/ \E c \in SeqCallers, sid \in LifeSessions : statusTool(c, sid)
    \/ \E c \in SeqCallers : statusAfterStats(c)
    \/ \E sid \in LifeSessions : peerCreate(sid)
    \/ \E sid \in LifeSessions, st \in {"stopped"} :
            docs[sid].status = "active" /\ peerWrite(sid, st, docs[sid].android)

Spec == Init /\ [][Next]_vars

\* Two clients whose calls on one session overlap; the document exists, no I/O
\* fails and no other program holds a port.
InitRace ==
    /\ sessions = [s \in SessionIds |-> NoObj]
    /\ objs = <<>>
    /\ trafficStores = [s \in SessionIds |-> NoObj]
    /\ docs = [s \in SessionIds |-> IF s \in LifeSessions THEN FreshDoc ELSE NoDoc]
    /\ procs = <<>>
    /\ processes = {}
    /\ exitUpd = [p \in 1 .. MaxObjs |-> NoExitUpdate]
    /\ pc = [c \in Callers |-> "idle"]
    /\ call = [c \in Callers |-> NoCall]
    /\ result = NoResult
    /\ busy = {}
    /\ faults = MaxFaults
    /\ LogEmpty
    /\ cleanup = NoCleanup

NextRace ==
    \/ \E c \in Callers, sid \in LifeSessions : startProxy(c, sid, Undefined)
    \/ \E c \in Callers : startAfterRead(c)
    \/ \E c \in Callers : findAvailablePortStep(c)
    \/ \E c \in Callers : startAfterMkdir(c)
    \/ \E c \in Callers : updateMitmRead(c)
    \/ \E c \in Callers : updateMitmWrite(c)
    \/ \E c \in Callers : startAfterInit(c)
    \/ \E c \in Callers : spawnResolve(c)
    \/ \E c \in Callers, sid \in LifeSessions : stopProxy(c, sid)
    \/ \E c \in Callers : killTimeout(c)
    \/ \E pid \in 1 .. MaxObjs : processExit(pid)
    \/ \E pid \in 1 .. MaxObjs : exitUpdateRead(pid)
    \/ \E pid \in 1 .. MaxObjs : exitUpdateWrite(pid)

SpecRace == InitRace /\ [][NextRace]_vars

\* ------------------------------------------------------- the port finder alone
ScanPorts == PortRangeStart .. (PortRangeEnd + 1)

\* port-finder.ts 21-22: findAvailablePort(startPort, endPort) is called; an empty
\* range returns null without a probe
findAvailablePort(c, lo, hi) ==
    /\ Idle(c)
    /\ IF lo > hi
       THEN Return(c, [NoResult EXCEPT !.op = "findFree", !.kind = "ok", !.proxyPort = Null,
                                       !.args = <<lo, hi>>])
       ELSE /\ pc' = [pc EXCEPT ![c] = "scan"]
            /\ call' = [call EXCEPT ![c] =
                    [NoCall EXCEPT !.op = "findFree", !.lo = lo, !.hi = hi, !.probe = lo]]
            /\ result' = NoResult
    /\ UNCHANGED <<sessions, objs, trafficStores, docs, procs, processes, exitUpd,
                   busy, faults>>
    /\ UNCHANGED <<storeVars, cleanup>>

\* another program binds or releases a port, also between two probes
portToggle(p) ==
    /\ busy' = IF p \in busy THEN busy \ {p} ELSE busy \cup {p}
    /\ result' = NoResult
    /\ UNCHANGED <<sessions, objs, trafficStores, docs, procs, processes, exitUpd,
                   pc, call, faults>>
    /\ UNCHANGED <<storeVars, cleanup>>

InitPorts ==
    /\ sessions = [s \in SessionIds |-> NoObj]
    /\ objs = <<>>
    /\ trafficStores = [s \in SessionIds |-> NoObj]
    /\ docs = [s \in SessionIds |-> NoDoc]
    /\ procs = <<>>
    /\ processes = {}
    /\ exitUpd = [p \in 1 .. MaxObjs |-> NoExitUpdate]
    /\ pc = [c \in Callers |-> "idle"]
    /\ call = [c \in Callers |-> NoCall]
    /\ result = NoResult
    /\ busy \in SUBSET ScanPorts
    /\ faults = 0
    /\ LogEmpty
    /\ cleanup = NoCleanup

NextPorts ==
    \/ \E c \in SeqCallers, lo \in ScanPorts, hi \in ScanPorts : findAvailablePort(c, lo, hi)
    \/ \E c \in SeqCallers : findAvailablePortStep(c)
    \/ \E p \in ScanPorts : portToggle(p)

SpecPorts == InitPorts /\ [][NextPorts]_vars

\* ------------------------------------------------- the store of a running session
\* the session object, the process and the document that a successful
\* startProxy(sid) with the given port leaves behind
ReadySession(sid, port, pid) == [NewSession(sid, port) EXCEPT !.status = "ready", !.pid = pid]
ReadyProcess(sid, port) == [sid |-> sid, port |-> port, alive |-> TRUE, signal |-> "null"]
ReadyDoc(port, pid) == UpdatedDoc(FreshDoc, MitmPartial("ready", port, pid, NoMessage))

\* the session object and the document of a startProxy(sid) whose
\* trafficStore.initialize failed: the session is in the map, no store is bound
FailedSession(sid, port) == [NewSession(sid, port) EXCEPT !.status = "error"]
FailedDoc(port) ==
    UpdatedDoc(UpdatedDoc(FreshDoc, MitmPartial("starting", port, Null, NoMessage)),
               MitmPartial("error", port, Null, InitFailedMessage))

\* (offset, limit): the first two matches, and the second match alone
Pages == {<<0, 2>>, <<1, 1>>}

\* the filters of a query: the two time bounds, the three text filters (none,
\* each alone, all), the exact status code and the status range
TimeFilters == {<<Undefined, Undefined>>, <<200, Undefined>>, <<Undefined, 200>>, <<200, 200>>}
TextFilters ==
    {<<<<>>, UndefinedStr, <<>>>>, <<<<"A", "b">>, UndefinedStr, <<>>>>,
     <<<<>>, "GET", <<>>>>, <<<<>>, UndefinedStr, <<"j">>>>,
     <<<<"A", "b">>, "GET", <<"j">>>>}
StatusCodes == {Undefined, 404}
StatusRanges == {<<>>, <<"4", "x", "x">>, <<"5", "x", "x">>}

QueryOptions ==
    { [startTimeMs |-> tm[1], endTimeMs |-> tm[2],
       urlPattern |-> tx[1], method |-> tx[2], contentType |-> tx[3],
       statusCode |-> sc, statusRange |-> sr,
       limit |-> pg[2], offset |-> pg[1]] :
        tm \in TimeFilters, tx \in TextFilters, sc \in StatusCodes,
        sr \in StatusRanges, pg \in Pages }

Thresholds == {Undefined, 200}

\* the sequences of pairwise different elements of S, up to length n
RECURSIVE Logs(_, _)
Logs(S, n) ==
    IF n = 0 THEN {<<>>}
    ELSE LET shorter == Logs(S, n - 1)
         IN  shorter \cup {Append(l, x) : l \in shorter, x \in S}

NoRepeat(l) == \A i, j \in DOMAIN l : i # j => l[i] # l[j]

\* s1 runs and has its store; s2 is unknown or is in the map without a store
InitStoreSessions(S2Known) ==
    /\ \E known \in S2Known :
        /\ objs = IF known THEN <<ReadySession("s1", PortRangeStart, 1),
                                  FailedSession("s2", PortRangeEnd)>>
                           ELSE <<ReadySession("s1", PortRangeStart, 1)>>
        /\ sessions = [s \in SessionIds |->
                            IF s = "s1" THEN 1 ELSE IF known THEN 2 ELSE NoObj]
        /\ docs = [s \in SessionIds |->
                            IF s = "s1" THEN ReadyDoc(PortRangeStart, 1)
                            ELSE IF known THEN FailedDoc(PortRangeEnd) ELSE NoDoc]
    /\ trafficStores = [s \in SessionIds |-> IF s = "s1" THEN 1 ELSE NoObj]
    /\ procs = <<ReadyProcess("s1", PortRangeStart)>>
    /\ processes = {1}
    /\ exitUpd = [p \in 1 .. MaxObjs |-> NoExitUpdate]
    /\ pc = [c \in Callers |-> "idle"]
    /\ call = [c \in Callers |-> NoCall]
    /\ result = NoResult
    /\ busy = {}
    /\ faults = MaxFaults
    /\ cleanup = NoCleanup

\* The store of a running session while the capture agent writes the log.
InitStore ==
    /\ InitStoreSessions(BOOLEAN)
    /\ LogEmpty

NextStore ==
    \/ \E line \in LogLines : agentAppend(line)
    \/ \E c \in SeqCallers, sid \in SessionIds : statusTool(c, sid)
    \/ \E c \in SeqCallers : statusAfterStats(c)
    \/ \E c \in SeqCallers, sid \in SessionIds, id \in EntryIds : getEntryTool(c, sid, id)
    \/ \E c \in SeqCallers, sid \in SessionIds, t \in Thresholds : clearTool(c, sid, t)
    \/ \E c \in SeqCallers : reloadStat(c)
    \/ \E c \in SeqCallers : reloadRead(c)
    \/ \E c \in SeqCallers : clearWrite(c)
    \/ \E c \in SeqCallers : clearStat(c)

SpecStore == InitStore /\ [][NextStore]_vars

\* mitm.query on a log of any content, read by a store that has loaded nothing yet
InitQuery ==
    /\ InitStoreSessions({FALSE})
    /\ jsonl \in {l \in Logs({JsonLine(e) : e \in LogEntries}, MaxLog) : NoRepeat(l)}
    /\ entries = <<>>
    /\ lastReadPosition = 0

NextQuery ==
    \/ \E c \in SeqCallers, sid \in LifeSessions, o \in QueryOptions : queryTool(c, sid, o)
    \/ \E c \in SeqCallers : reloadStat(c)
    \/ \E c \in SeqCallers : reloadRead(c)

SpecQuery == InitQuery /\ [][NextQuery]_vars

\* ------------------------------------------------ calls that must return
\* One client starts and stops one session; no I/O fails and no peer writes, so
\* that a call that does not return is held up by nothing but the program.
InitLive ==
    /\ sessions = [s \in SessionIds |-> NoObj]
    /\ objs = <<>>
    /\ trafficStores = [s \in SessionIds |-> NoObj]
    /\ docs = [s \in SessionIds |-> IF s \in LifeSessions THEN FreshDoc ELSE NoDoc]
    /\ procs = <<>>
    /\ processes = {}
    /\ exitUpd = [p \in 1 .. MaxObjs |-> NoExitUpdate]
    /\ pc = [c \in Callers |-> "idle"]
    /\ call = [c \in Callers |-> NoCall]
    /\ result = NoResult
    /\ busy = {}
    /\ faults = MaxFaults
    /\ LogEmpty
    /\ cleanup = NoCleanup

NextLive ==
    \/ \E c \in SeqCallers, sid \in LifeSessions : startProxy(c, sid, Undefined)
    \/ \E c \in SeqCallers : startAfterRead(c)
    \/ \E c \in SeqCallers : findAvailablePortStep(c)
    \/ \E c \in SeqCallers : startAfterMkdir(c)
    \/ \E c \in SeqCallers : updateMitmRead(c)
    \/ \E c \in SeqCallers : updateMitmWrite(c)
    \/ \E c \in SeqCallers : startAfterInit(c)
    \/ \E c \in SeqCallers : spawnResolve(c)
    \/ \E c \in SeqCallers, sid \in LifeSessions : stopProxy(c, sid)
    \/ \E c \in SeqCallers : killTimeout(c)
    \/ \E pid \in 1 .. MaxObjs : processExit(pid)
    \/ \E pid \in 1 .. MaxObjs : exitUpdateRead(pid)
    \/ \E pid \in 1 .. MaxObjs : exitUpdateWrite(pid)

\* The event loop runs every completion that is due: each awaited I/O completes
\* and each timer fires.  When a capture process exits is up to the process.
FairLive ==
    /\ \A c \in SeqCallers :
        /\ WF_vars(startAfterRead(c))
        /\ WF_vars(findAvailablePortStep(c))
        /\ WF_vars(startAfterMkdir(c))
        /\ WF_vars(updateMitmRead(c))
        /\ WF_vars(updateMitmWrite(c))
        /\ WF_vars(startAfterInit(c))
        /\ WF_vars(spawnResolve(c))
        /\ WF_vars(killTimeout(c))
    /\ \A pid \in 1 .. MaxObjs :
        /\ WF_vars(exitUpdateRead(pid))
        /\ WF_vars(exitUpdateWrite(pid))

SpecLive == InitLive /\ [][NextLive]_vars /\ FairLive

\* --------------------------------------------------- shutdown of the server
\* stop-tool.ts 118-131: shutdown awaits cleanup() and then calls process.exit(0)
\* in the same turn, so the server has exited once cleanup has returned
Exited == cleanup.phase = "done"

\* the client whose start call may be in flight when the shutdown begins
StartCallers == {"c2"}

\* A client starts session s1; SIGHUP arrives or stdin closes at any moment
\* (stop-tool.ts 137-149: these run shutdown only; the supervisor's own handlers
\* are bound to SIGTERM and SIGINT).  No I/O fails.
InitShutdown == InitLive

\* an event is handled only while the server runs, and not between the return
\* of the stopProxy that cleanup awaits and the continuation of its loop
Handles == ~Exited /\ ~cleanupResumes

NextShutdown ==
    \/ \E c \in SeqCallers : ~Exited /\ cleanupStart(c)
    \/ \E c \in SeqCallers : ~Exited /\ cleanupLoop(c)
    \/ \E c \in StartCallers, sid \in LifeSessions :
            Handles /\ startProxy(c, sid, Undefined)
    \/ \E c \in StartCallers : Handles /\ startAfterRead(c)
    \/ \E c \in StartCallers : Handles /\ findAvailablePortStep(c)
    \/ \E c \in StartCallers : Handles /\ startAfterMkdir(c)
    \/ \E c \in Callers : Handles /\ updateMitmRead(c)
    \/ \E c \in Callers : Handles /\ updateMitmWrite(c)
    \/ \E c \in StartCallers : Handles /\ startAfterInit(c)
    \/ \E c \in StartCallers : Handles /\ spawnResolve(c)
    \/ \E c \in SeqCallers : Handles /\ killTimeout(c)
    \/ \E pid \in 1 .. MaxObjs : Handles /\ processExit(pid)
    \/ \E pid \in 1 .. MaxObjs : Handles /\ exitUpdateRead(pid)
    \/ \E pid \in 1 .. MaxObjs : Handles /\ exitUpdateWrite(pid)

SpecShutdown == InitShutdown /\ [][NextShutdown]_vars

\* ------------------------------------------------------ stop and restart
\* stop-tool.ts 17-22 (mitm.stop): keepData is accepted and never read; when the
\* session is in the map and has a store, getStats (so reloadEntries) is awaited
\* before stopProxy is called
stopTool(c, sid, keepData) ==
    /\ Idle(c)
    /\ IF sessions[sid] # NoObj /\ trafficStores[sid] # NoObj /\ sid = LogSession
       THEN /\ pc' = [pc EXCEPT ![c] = "stop_stat"]
            /\ call' = [call EXCEPT ![c] =
                    [NoCall EXCEPT !.op = "stop", !.sid = sid, !.opts = keepData]]
            /\ result' = NoResult
            /\ UNCHANGED <<sessions, objs, trafficStores, docs, procs, processes,
                           exitUpd, busy, faults, storeVars>>
       ELSE stopProxyRun(c, sid, entries, lastReadPosition)
    /\ UNCHANGED cleanup

\* reloadEntries 489-497 under the getStats of mitm.stop: fs.stat completes; the
\* cache is kept and stopProxy runs, or readFile is awaited
stopStatsStat(c) ==
    /\ pc[c] = "stop_stat"
    /\ IF FileSize(jsonl) <= lastReadPosition
       THEN stopProxyRun(c, call[c].sid, entries, lastReadPosition)
       ELSE /\ pc' = [pc EXCEPT ![c] = "stop_read"]
            /\ call' = [call EXCEPT ![c].size = FileSize(jsonl)]
            /\ result' = NoResult
            /\ UNCHANGED <<sessions, objs, trafficStores, docs, procs, processes,
                           exitUpd, busy, faults, storeVars>>
    /\ UNCHANGED cleanup

\* reloadEntries 497-511 under the getStats of mitm.stop: readFile completes, the
\* file is parsed into the cache, and stopProxy runs
stopStatsRead(c) ==
    /\ pc[c] = "stop_read"
    /\ stopProxyRun(c, call[c].sid, reparse(jsonl, lastReadPosition), call[c].size)
    /\ UNCHANGED cleanup

\* the capture agent runs inside the capture process of the session of the log
AgentRuns == \E p \in DOMAIN procs : procs[p].alive /\ procs[p].sid = LogSession

\* the records mitm.get_entry is asked for
RestartEntryIds == {"e1"}

\* the lines the agent writes: two records and a torn line
RestartLines == {JsonLine(e) : e \in {x \in LogEntries : x.id \in {"e1", "e2"}}} \cup {TornLine}

\* A running session whose agent writes the log is read, stopped with either
\* keepData, and started again by one client; no I/O fails.
InitRestart ==
    /\ InitStoreSessions({FALSE})
    /\ LogEmpty

NextRestart ==
    \/ \E line \in RestartLines : AgentRuns /\ agentAppend(line)
    \/ \E c \in SeqCallers, id \in RestartEntryIds : getEntryTool(c, LogSession, id)
    \/ \E c \in SeqCallers : reloadStat(c)
    \/ \E c \in SeqCallers : reloadRead(c)
    \/ \E c \in SeqCallers, keepData \in BOOLEAN : stopTool(c, LogSession, keepData)
    \/ \E c \in SeqCallers : stopStatsStat(c)
    \/ \E c \in SeqCallers : stopStatsRead(c)
    \/ \E c \in SeqCallers : killTimeout(c)
    \/ \E pid \in 1 .. MaxObjs : processExit(pid)
    \/ \E pid \in 1 .. MaxObjs : exitUpdateRead(pid)
    \/ \E pid \in 1 .. MaxObjs : exitUpdateWrite(pid)
    \/ \E c \in SeqCallers : updateMitmRead(c)
    \/ \E c \in SeqCallers : updateMitmWrite(c)
    \/ \E c \in SeqCallers : startProxy(c, LogSession, Undefined)
    \/ \E c \in SeqCallers : startAfterRead(c)
    \/ \E c \in SeqCallers : findAvailablePortStep(c)
    \/ \E c \in SeqCallers : startAfterMkdir(c)
    \/ \E c \in SeqCallers : startAfterInit(c)
    \/ \E c \in SeqCallers : spawnResolve(c)

SpecRestart == InitRestart /\ [][NextRestart]_vars

\* ------------------------------------------------------------ two sessions
\* the line the agent of the session of the log writes
PairLines == {JsonLine(e) : e \in {x \in LogEntries : x.id = "e1"}}

\* the session each of the two clients works on
SessionOf(c) == IF c = "c1" THEN "s1" ELSE "s2"

\* the client that reads and clears the log
LogCallers == {c \in Callers : SessionOf(c) = LogSession}

\* Two clients, one per session, start and stop their sessions, and the first
\* reads and clears its log, in any interleaving; both documents exist, no I/O
\* fails.
InitPair ==
    /\ sessions = [s \in SessionIds |-> NoObj]
    /\ objs = <<>>
    /\ trafficStores = [s \in SessionIds |-> NoObj]
    /\ docs = [s \in SessionIds |-> FreshDoc]
    /\ procs = <<>>
    /\ processes = {}
    /\ exitUpd = [p \in 1 .. MaxObjs |-> NoExitUpdate]
    /\ pc = [c \in Callers |-> "idle"]
    /\ call = [c \in Callers |-> NoCall]
    /\ result = NoResult
    /\ busy = {}
    /\ faults = MaxFaults
    /\ LogEmpty
    /\ cleanup = NoCleanup

NextPair ==
    \/ \E c \in Callers : startProxy(c, SessionOf(c), Undefined)
    \/ \E c \in Callers : startAfterRead(c)
    \/ \E c \in Callers : findAvailablePortStep(c)
    \/ \E c \in Callers : startAfterMkdir(c)
    \/ \E c \in Callers : updateMitmRead(c)
    \/ \E c \in Callers : updateMitmWrite(c)
    \/ \E c \in Callers : startAfterInit(c)
    \/ \E c \in Callers : spawnResolve(c)
    \/ \E c \in Callers : stopProxy(c, SessionOf(c))
    \/ \E c \in Callers : killTimeout(c)
    \/ \E pid \in 1 .. MaxObjs : processExit(pid)
    \/ \E pid \in 1 .. MaxObjs : exitUpdateRead(pid)
    \/ \E pid \in 1 .. MaxObjs : exitUpdateWrite(pid)
    \/ \E line \in PairLines : AgentRuns /\ agentAppend(line)
    \/ \E c \in LogCallers, id \in RestartEntryIds : getEntryTool(c, LogSession, id)
    \/ \E c \in LogCallers : clearTool(c, LogSession, Undefined)
    \/ \E c \in LogCallers : reloadStat(c)
    \/ \E c \in LogCallers : reloadRead(c)
    \/ \E c \in LogCallers : clearWrite(c)
    \/ \E c \in LogCallers : clearStat(c)

SpecPair == InitPair /\ [][NextPair]_vars

\* ------------------------------------------- a read and a clear that overlap
\* the client that clears and the client that reads
ClearCallers == {"c1"}
ReadCallers == {"c2"}

\* the log when the calls begin: records the agent has written, none loaded yet
OverlapLogs == {l \in Logs(PairLines \cup RestartLines, 2) : NoRepeat(l)}

\* One client clears the log of a running session while another reads it; the
\* agent is silent.
InitBoth ==
    /\ InitStoreSessions({FALSE})
    /\ jsonl \in OverlapLogs
    /\ entries = <<>>
    /\ lastReadPosition = 0

NextBoth ==
    \/ \E c \in ClearCallers, t \in Thresholds : clearTool(c, LogSession, t)
    \/ \E c \in ReadCallers, id \in RestartEntryIds : getEntryTool(c, LogSession, id)
    \/ \E c \in Callers : reloadStat(c)
    \/ \E c \in Callers : reloadRead(c)
    \/ \E c \in ClearCallers : clearWrite(c)
    \/ \E c \in ClearCallers : clearStat(c)

SpecBoth == InitBoth /\ [][NextBoth]_vars

\* ------------------------------------- overlapping writes of the document
\* fs.promises.writeFile opens the file with O_TRUNC and writes the content
\* afterwards: between the two the file is empty, and a readFile that another
\* updateMitm runs meanwhile returns '' (JSON.parse then throws, and
\* StateClient.read reports STATE_READ_FAILED, state-client.ts 35-48).
TruncatedDoc == [status |-> "truncated", android |-> "absent", mitm |-> NoMitm]

\* the updateMitm of handleProcessExit: writeFile has opened the file
exitUpdateOpen(pid) ==
    /\ exitUpd[pid].phase = "write"
    /\ docs' = [docs EXCEPT ![procs[pid].sid] = TruncatedDoc]
    /\ exitUpd' = [exitUpd EXCEPT ![pid].phase = "flush"]
    /\ result' = NoResult
    /\ UNCHANGED <<sessions, objs, trafficStores, procs, processes, pc, call, busy, faults>>
    /\ UNCHANGED <<storeVars, cleanup>>

\* ... and has written the merged document
exitUpdateFlush(pid) ==
    /\ exitUpd[pid].phase = "flush"
    /\ docs' = [docs EXCEPT ![procs[pid].sid] =
            UpdatedDoc(exitUpd[pid].cur, [status |-> "error", error |-> exitUpd[pid].msg])]
    /\ exitUpd' = [exitUpd EXCEPT ![pid] = NoExitUpdate]
    /\ result' = NoResult
    /\ UNCHANGED <<sessions, objs, trafficStores, procs, processes, pc, call, busy, faults>>
    /\ UNCHANGED <<storeVars, cleanup>>

\* state-client.ts 56 and 34-48: the read of an awaited updateMitm finds the
\* file empty
updateMitmReadTruncated(c) ==
    /\ pc[c] = "upd_read"
    /\ docs[call[c].sid] = TruncatedDoc
    /\ UpdateSettled(c, FALSE, "STATE_READ_FAILED", {"sessionId", "statePath"},
                     ReadFailedMessage)
    /\ UNCHANGED <<trafficStores, docs, procs, processes, exitUpd, busy, faults>>
    /\ UNCHANGED <<storeVars, cleanup>>

\* One session whose capture process runs; a client stops it while the process
\* may exit on its own or on the SIGTERM of the stop.  No I/O fails for a reason
\* outside the program.
InitOverlap ==
    /\ objs = <<ReadySession("s1", PortRangeStart, 1)>>
    /\ sessions = [s \in SessionIds |-> IF s = "s1" THEN 1 ELSE NoObj]
    /\ docs = [s \in SessionIds |-> IF s = "s1" THEN ReadyDoc(PortRangeStart, 1) ELSE NoDoc]
    /\ trafficStores = [s \in SessionIds |-> IF s = "s1" THEN 1 ELSE NoObj]
    /\ procs = <<ReadyProcess("s1", PortRangeStart)>>
    /\ processes = {1}
    /\ exitUpd = [p \in 1 .. MaxObjs |-> NoExitUpdate]
    /\ pc = [c \in Callers |-> "idle"]
    /\ call = [c \in Callers |-> NoCall]
    /\ result = NoResult
    /\ busy = {}
    /\ faults = MaxFaults
    /\ LogEmpty
    /\ cleanup = NoCleanup

NextOverlap ==
    \/ \E c \in SeqCallers, sid \in LifeSessions : stopProxy(c, sid)
    \/ \E c \in SeqCallers : killTimeout(c)
    \/ \E pid \in 1 .. MaxObjs : processExit(pid)
    \/ \E pid \in 1 .. MaxObjs : exitUpdateRead(pid)
    \/ \E pid \in 1 .. MaxObjs : exitUpdateOpen(pid)
    \/ \E pid \in 1 .. MaxObjs : exitUpdateFlush(pid)
    \/ \E c \in SeqCallers :
            /\ pc[c] = "upd_read"
            /\ docs[call[c].sid] # TruncatedDoc
            /\ updateMitmRead(c)
    \/ \E c \in SeqCallers : updateMitmReadTruncated(c)
    \/ \E c \in SeqCallers : updateMitmWrite(c)
    \/ \E c \in SeqCallers, sid \in LifeSessions : statusTool(c, sid)
    \/ \E c \in SeqCallers : statusAfterStats(c)
    \/ \E sid \in LifeSessions, st \in {"stopped"} :
            docs[sid].status = "active" /\ peerWrite(sid, st, docs[sid].android)

SpecOverlap == InitOverlap /\ [][NextOverlap]_vars

\* ------------------------------------------------------- cleanup at shutdown
\* Two tracked sessions, the first running, the second running or failed at its
\* start; the shutdown handler calls cleanup while processes may exit and the
\* I/O of the state file may fail.
InitCleanup ==
    /\ \E second \in {"ready", "error"} :
        /\ objs = <<ReadySession("s1", PortRangeStart, 1),
                    IF second = "ready"
                    THEN ReadySession("s2", PortRangeStart + 1, 2)
                    ELSE FailedSession("s2", PortRangeStart + 1)>>
        /\ docs = [s \in SessionIds |->
                        IF s = "s1" THEN ReadyDoc(PortRangeStart, 1)
                        ELSE IF second = "ready" THEN ReadyDoc(PortRangeStart + 1, 2)
                        ELSE FailedDoc(PortRangeStart + 1)]
        /\ trafficStores = [s \in SessionIds |->
                        IF s = "s1" THEN 1 ELSE IF second = "ready" THEN 2 ELSE NoObj]
        /\ procs = IF second = "ready"
                   THEN <<ReadyProcess("s1", PortRangeStart),
                          ReadyProcess("s2", PortRangeStart + 1)>>
                   ELSE <<ReadyProcess("s1", PortRangeStart)>>
        /\ processes = IF second = "ready" THEN {1, 2} ELSE {1}
    /\ sessions = [s \in SessionIds |-> IF s = "s1" THEN 1 ELSE 2]
    /\ exitUpd = [p \in 1 .. MaxObjs |-> NoExitUpdate]
    /\ pc = [c \in Callers |-> "idle"]
    /\ call = [c \in Callers |-> NoCall]
    /\ result = NoResult
    /\ busy = {}
    /\ faults = 0
    /\ LogEmpty
    /\ cleanup = NoCleanup

\* The catch and the next iteration run in the turn in which the awaited
\* stopProxy settles: no event is handled in between.
NextCleanup ==
    \/ \E c \in SeqCallers : cleanupStart(c)
    \/ \E c \in SeqCallers : cleanupLoop(c)
    \/ \E c \in SeqCallers : killTimeout(c)
    \/ \E c \in SeqCallers : updateMitmRead(c)
    \/ \E c \in SeqCallers : updateMitmWrite(c)
    \/ \E pid \in 1 .. MaxObjs : ~cleanupResumes /\ processExit(pid)
    \/ \E pid \in 1 .. MaxObjs : ~cleanupResumes /\ exitUpdateRead(pid)
    \/ \E pid \in 1 .. MaxObjs : ~cleanupResumes /\ exitUpdateWrite(pid)

\* The event loop runs every completion that is due: the I/O of updateMitm, the
\* 5 s timer of kill, and the continuation of cleanup's loop.
FairCleanup ==
    \A c \in SeqCallers :
        /\ WF_vars(cleanupLoop(c))
        /\ WF_vars(killTimeout(c))
        /\ WF_vars(updateMitmRead(c))
        /\ WF_vars(updateMitmWrite(c))

SpecCleanup == InitCleanup /\ [][NextCleanup]_vars /\ FairCleanup

\* ==================================================================== claims
InMessage(x, m) == \E i \in DOMAIN m : m[i] = x
ManagerState == <<sessions, objs, trafficStores, docs, procs, processes>>
StartPastPort == {"st_mkdir", "upd_read", "upd_write", "st_init", "st_spawn"}

\* C1: a start call for a session id whose in-memory session is `starting` or
\* `ready` returns PROXY_ALREADY_RUNNING at once, spawns no process and leaves the
\* session map, the session objects, the stores and the shared documents unchanged.
C1_AlreadyRunningRejected ==
    [][\A c \in Callers, sid \in SessionIds, p \in PortInputs :
        (/\ startProxy(c, sid, p)
         /\ sessions[sid] # NoObj
         /\ objs[sessions[sid]].status \in {"starting", "ready"})
        => /\ result'.caller = c
           /\ result'.op = "start"
           /\ result'.kind = "PROXY_ALREADY_RUNNING"
           /\ pc'[c] = "idle"
           /\ ManagerState' = ManagerState]_vars

\* a start is rejected while another start of the same session is still `starting`
C1_Witness ==
    /\ result.op = "start"
    /\ result.kind = "PROXY_ALREADY_RUNNING"
    /\ sessions[result.sid] # NoObj
    /\ objs[sessions[result.sid]].status = "starting"
    /\ \E c \in Callers : pc[c] = "st_spawn"

\* C2 (as claimed): when start returns successfully, the status tool run right
\* then reports `ready`, the port start returned and a non-null pid.
C2_StartThenStatusReady ==
    (result.op = "start" /\ result.kind = "ok")
    => /\ sessions[result.sid] # NoObj
       /\ LET st == StatusOk(result.sid, sessions[result.sid], objs)
          IN  /\ st.status = "ready"
              /\ st.proxyPort = result.proxyPort
              /\ st.pid # Null

\* C3 (as claimed): a start that fails in port resolution, directory creation,
\* the `starting` publish, store initialization, spawn or the `ready` publish
\* returns MITMDUMP_START_FAILED with the session in `error` and the error message
\* in the shared mitm sub-object; the session is not left in `starting`.
C3_StartFailureRollsForward ==
    [][\A c \in Callers :
        (/\ call[c].op = "start"
         /\ pc[c] \in {"scan"} \cup StartPastPort
         /\ pc'[c] = "idle"
         /\ result'.kind # "ok")
        => /\ result'.kind = "MITMDUMP_START_FAILED"
           /\ call[c].obj # NoObj
           /\ objs'[call[c].obj].status = "error"
           /\ docs'[call[c].sid].mitm.status = "error"
           /\ docs'[call[c].sid].mitm.error # NoMessage]_vars

\* C4 (as claimed): after the capture process of a session has exited, a status
\* call on the session, which is still in the map, reports `error` and its result
\* carries a message containing the exit code or signal.
C4_StatusCarriesExitMessage ==
    (/\ result.op = "status"
     /\ result.kind = "ok"
     /\ result.pid # Null
     /\ ~procs[result.pid].alive)
    => /\ sessions[result.sid] # NoObj
       /\ result.status = "error"
       /\ \E x \in {"1", "SIGTERM", "SIGKILL"} : InMessage(x, result.message)

\* C5: stop for a session id that is not in the session map returns
\* PROXY_NOT_RUNNING and changes neither the session map, the store map, the
\* shared documents nor any process; when a stop has just returned successfully
\* the session id is not in the map, so a second stop issued then fails this way.
C5_StopUnknownSession ==
    [][/\ \A c \in Callers, sid \in SessionIds :
            (stopProxy(c, sid) /\ sessions[sid] = NoObj)
            => /\ result'.caller = c
               /\ result'.op = "stop"
               /\ result'.kind = "PROXY_NOT_RUNNING"
               /\ pc'[c] = "idle"
               /\ ManagerState' = ManagerState
       /\ (result'.op = "stop" /\ result'.kind = "ok") => sessions'[result'.sid] = NoObj]_vars

\* a second stop fails right after (and because) the first one removed the session
C5_Witness ==
    /\ result.op = "stop"
    /\ result.kind = "PROXY_NOT_RUNNING"
    /\ Len(objs) > 0
    /\ objs[Len(objs)].status = "stopped"
    /\ sessions[result.sid] = NoObj

\* C6 (as claimed): when stop returns successfully the session id is not in the
\* session map, no traffic store is bound to it, and the shared mitm sub-object
\* has status `stopped` and no pid.
C6_StopLeavesNothingBound ==
    (result.op = "stop" /\ result.kind = "ok")
    => /\ sessions[result.sid] = NoObj
       /\ trafficStores[result.sid] = NoObj
       /\ docs[result.sid].mitm.status = "stopped"
       /\ docs[result.sid].mitm.pid = Undefined

\* C7 (as claimed): a write of updateMitm leaves every top-level field other than
\* mitm as the document holds it at the moment of the write.
C7_OnlyMitmChanges ==
    [][/\ \A c \in Callers :
            (updateMitmWrite(c) /\ docs' # docs)
            => /\ docs'[call[c].sid].status = docs[call[c].sid].status
               /\ docs'[call[c].sid].android = docs[call[c].sid].android
       /\ \A pid \in DOMAIN procs :
            exitUpdateWrite(pid)
            => /\ docs'[procs[pid].sid].status = docs[procs[pid].sid].status
               /\ docs'[procs[pid].sid].android = docs[procs[pid].sid].android]_vars

\* C8: when startProxy has read the shared state, an absent document ends the call
\* with SESSION_NOT_FOUND and a status other than `active` with
\* SESSION_INVALID_STATE, both without touching the session map, the processes or
\* the document; a call gets past the read only if the document is `active`.
C8_StartNeedsActiveDocument ==
    [][\A c \in Callers :
        /\ (startAfterRead(c) /\ docs[call[c].sid] = NoDoc)
            => /\ result'.kind = "SESSION_NOT_FOUND"
               /\ pc'[c] = "idle"
               /\ ManagerState' = ManagerState
        /\ (startAfterRead(c) /\ docs[call[c].sid] # NoDoc
                              /\ docs[call[c].sid].status # "active")
            => /\ result'.kind = "SESSION_INVALID_STATE"
               /\ pc'[c] = "idle"
               /\ ManagerState' = ManagerState
        /\ (pc[c] = "st_read" /\ pc'[c] \notin {"st_read", "idle"})
            => docs[call[c].sid].status = "active"]_vars

\* a start is refused because the orchestrator has marked the session stopped,
\* while an earlier session object of this id is still in the map
C8_Witness ==
    /\ result.op = "start"
    /\ result.kind = "SESSION_INVALID_STATE"
    /\ docs[result.sid].status = "stopped"
    /\ sessions[result.sid] # NoObj

\* C9: a start call past port resolution uses input.port when the caller gave one
\* and a port of the configured range otherwise: the one findAvailablePort
\* returned; the session object and the capture process get that port; when
\* findAvailablePort returns none the call ends with PORT_UNAVAILABLE and nothing
\* is spawned or registered.
C9_PortUsed ==
    \A c \in Callers :
        (call[c].op = "start" /\ pc[c] \in StartPastPort)
        => /\ IF call[c].inPort # Undefined
              THEN call[c].port = call[c].inPort
              ELSE call[c].port \in PortRangeStart .. PortRangeEnd
           /\ call[c].obj # NoObj => objs[call[c].obj].proxyPort = call[c].port
           /\ call[c].pid # Null => procs[call[c].pid].port = call[c].port

C9_PortResolution ==
    [][/\ C9_PortUsed'
       /\ \A c \in Callers :
            (call[c].op = "start" /\ pc[c] = "scan" /\ pc'[c] # "scan")
            => \/ /\ pc'[c] = "st_mkdir"
                  /\ call'[c].port = call[c].probe
                  /\ isPortAvailable(call[c].probe)
               \/ /\ pc'[c] = "idle"
                  /\ result'.kind = "PORT_UNAVAILABLE"
                  /\ call[c].probe = PortRangeEnd
                  /\ ~isPortAvailable(call[c].probe)
                  /\ ManagerState' = ManagerState]_vars

\* start returns with the caller's port although every port of the range is taken
C9_Witness ==
    /\ result.op = "start"
    /\ result.kind = "ok"
    /\ result.proxyPort \in CandidatePorts
    /\ \A q \in PortRangeStart .. PortRangeEnd : q \in busy

\* C10: findAvailablePort(lo, hi) returns a port of lo..hi that was bindable when it
\* was probed, every lower port of the range having been probed and found taken;
\* it returns none exactly when every port of the range was found taken.
C10_LowestBindable ==
    [][\A c \in Callers :
        /\ (call[c].op = "findFree" /\ pc[c] = "scan" /\ pc'[c] = "idle")
            => LET v == result'.proxyPort
                   foundTaken == call[c].tried \cup
                        (IF isPortAvailable(call[c].probe) THEN {} ELSE {call[c].probe})
               IN  /\ result'.op = "findFree"
                   /\ IF v = Null
                      THEN \A q \in call[c].lo .. call[c].hi : q \in foundTaken
                      ELSE /\ v \in call[c].lo .. call[c].hi
                           /\ v = call[c].probe
                           /\ isPortAvailable(v)
                           /\ \A q \in call[c].lo .. (v - 1) : q \in foundTaken
        /\ \A lo \in ScanPorts, hi \in ScanPorts :
            (findAvailablePort(c, lo, hi) /\ lo > hi) => result'.proxyPort = Null]_vars

\* the scan of a three-port range passes two taken ports and returns the third
C10_Witness ==
    /\ result.op = "findFree"
    /\ result.args = <<PortRangeStart, PortRangeStart + 2>>
    /\ result.proxyPort = PortRangeStart + 2
    /\ busy = {PortRangeStart, PortRangeStart + 1}

\* C11: status for a session id in the map returns the fields of that session
\* object together with stats over the records its store holds (count and byte
\* sums over all of them, the records of the last minute counted apart), all-zero
\* stats when no store is bound; for a session id not in the map it returns
\* PROXY_NOT_RUNNING.
C11_StatusRecordAndStats ==
    result.op = "status"
    => IF sessions[result.sid] = NoObj
       THEN result.kind = "PROXY_NOT_RUNNING"
       ELSE LET o == objs[sessions[result.sid]]
            IN  /\ result.kind = "ok"
                /\ result.status = o.status
                /\ result.proxyPort = o.proxyPort
                /\ result.pid = o.pid
                /\ IF trafficStores[result.sid] = NoObj
                   THEN result.data = ZeroStats
                   ELSE /\ result.data.totalEntries = Len(entries)
                        /\ result.data.totalRequestBytes = sumOf(entries, "request")
                        /\ result.data.totalResponseBytes = sumOf(entries, "response")
                        /\ \E nowMs \in Clock :
                              result.data.entriesLast60s =
                                Cardinality({i \in DOMAIN entries :
                                    entries[i].timestampMs >= nowMs - 60000})

\* status reports two records, one of them older than a minute, read from a log
\* that also holds a torn line
C11_Witness ==
    /\ result.op = "status"
    /\ result.kind = "ok"
    /\ result.data.totalEntries = 2
    /\ result.data.entriesLast60s = 1
    /\ \E i \in DOMAIN jsonl : ~jsonl[i].json

\* C12 (as claimed): every failure a tool returns carries a kind, a message and
\* a context that holds the session id of the call.
C12_FailuresCarrySessionId ==
    result.kind \notin {"none", "ok"}
    => /\ result.message # NoMessage
       /\ "sessionId" \in result.details

\* the ids of the records of a sequence
IdsOf(es) == {es[i].id : i \in DOMAIN es}

QueryReturned == result.op = "query" /\ result.kind = "ok"

\* C13: the records a query returns are ordered by timestampMs, newest first
\* (non-increasing), and the summaries are returned in that order.
C13_NewestFirst ==
    QueryReturned
    => LET page == result.data.paginated
       IN  /\ \A i, j \in DOMAIN page :
                i < j => page[i].timestampMs >= page[j].timestampMs
           /\ DOMAIN result.data.entries = DOMAIN page
           /\ \A i \in DOMAIN page : result.data.entries[i].id = page[i].id

\* a query returns a newer record before an older one that precedes it in the log
C13_Witness ==
    /\ QueryReturned
    /\ Len(result.data.paginated) = 2
    /\ result.data.paginated[1].timestampMs > result.data.paginated[2].timestampMs
    /\ \E i, j \in DOMAIN jsonl :
          /\ i < j
          /\ jsonl[i].entry.id = result.data.paginated[2].id
          /\ jsonl[j].entry.id = result.data.paginated[1].id

\* C14: totalMatches is the number of records that pass the filters, counted
\* before pagination, and the returned entries are the positions offset ..
\* offset + limit - 1 (from 0) of the sorted filtered sequence, as far as it goes.
C14_TotalAndPage ==
    QueryReturned
    => LET d == result.data
           o == result.args
           rest == IF d.total > o.offset THEN d.total - o.offset ELSE 0
           n == IF o.limit < rest THEN o.limit ELSE rest
       IN  /\ d.total = Cardinality({i \in DOMAIN entries : Matches(entries[i], o)})
           /\ IdsOf(d.filtered) = {entries[i].id : i \in {k \in DOMAIN entries :
                                                            Matches(entries[k], o)}}
           /\ Len(d.filtered) = d.total
           /\ Len(d.entries) = n
           /\ \A k \in 1 .. n : d.entries[k] = Summary(d.filtered[o.offset + k])

\* a query with offset 1 and limit 1 returns the second of three matches
C14_Witness ==
    /\ QueryReturned
    /\ result.args.offset = 1
    /\ result.data.total = 3
    /\ Len(result.data.entries) = 1
    /\ result.data.entries[1].id = result.data.filtered[2].id

\* the hundred a status range names: "4xx" names 400
RangeStartOf(statusRange) ==
    CASE statusRange = <<"4", "x", "x">> -> 400
      [] statusRange = <<"5", "x", "x">> -> 500

\* C15: a status range Nxx keeps exactly the records whose status is in
\* [N*100, N*100 + 99]: with the range as only filter the matched records are
\* exactly those, and with other filters none outside the range is matched.
C15_StatusRangeBounds ==
    QueryReturned /\ result.args.statusRange # <<>>
    => LET o == result.args
           lo == RangeStartOf(o.statusRange)
           inRange == {entries[i].id : i \in {k \in DOMAIN entries :
                            /\ entries[k].response.status >= lo
                            /\ entries[k].response.status <= lo + 99}}
       IN  /\ IdsOf(result.data.filtered) \subseteq inRange
           /\ o = [NoOptions EXCEPT !.statusRange = o.statusRange,
                                    !.limit = o.limit, !.offset = o.offset]
                => IdsOf(result.data.filtered) = inRange

\* 4xx alone over a log that holds the statuses 399, 499 and 500 matches 499 only
C15_Witness ==
    /\ QueryReturned
    /\ result.args = [NoOptions EXCEPT !.statusRange = <<"4", "x", "x">>,
                                       !.limit = 2, !.offset = 0]
    /\ {entries[i].response.status : i \in DOMAIN entries} = {399, 499, 500}
    /\ IdsOf(result.data.filtered) = {"e4"}

FilterFields ==
    {"startTimeMs", "endTimeMs", "urlPattern", "method", "statusCode", "statusRange",
     "contentType"}

\* the options that supply the filter f of o and no other
OnlyFilter(o, f) == [NoOptions EXCEPT ![f] = o[f]]

C17_ClearRemovesExactlyOlder ==
    [][ /\ \A c \in SeqCallers :
            pc[c] = "clr_write" /\ pc'[c] = "clr_stat"
            => parseLines(jsonl') = retained(parseLines(jsonl), call[c].opts)
        /\ result'.op = "clear" /\ result'.kind = "ok"
            => result'.data.entriesRemaining =
                    result'.data.entriesBefore - result'.data.entriesCleared ]_vars

\* what a store that has never read the file loads from it
FreshStoreSees(lines) == parseLines(lines)

\* what the store of the session answers from on its next operation: its cache
\* when the file is not longer than its read position, else the parsed file
StoreSees(lines, es, pos) ==
    IF FileSize(lines) <= pos THEN es ELSE parseLines(lines)

\* C18 (as claimed): when clear has completed, the log holds exactly the
\* surviving records, and a fresh store on the same file yields the same
\* records as the store that executed the clear.
C18_FreshStoreAgrees ==
    [][ \A c \in SeqCallers :
            pc[c] = "clr_stat" /\ pc'[c] # "clr_stat"
            => /\ parseLines(jsonl') = entries'
               /\ StoreSees(jsonl', entries', lastReadPosition') = FreshStoreSees(jsonl') ]_vars

C20_CleanupStopsEverySession ==
    /\ [](/\ cleanup.phase # "raised"
          /\ cleanup.logged \subseteq cleanup.attempted
          /\ cleanup.phase = "done" => cleanup.atStart \subseteq cleanup.attempted
          /\ result.op = "cleanup" => result.kind = "ok" /\ cleanup.phase = "done"
          /\ cleanup.phase = "running" => cleanup.current \in cleanup.atStart)
    /\ (cleanup.phase = "running") ~> (cleanup.phase = "done")

\* cleanup has returned after the stop of the first session failed and was
\* logged, and the second session was stopped and removed from the map
C20_Witness ==
    /\ cleanup.phase = "done"
    /\ cleanup.atStart = {"s1", "s2"}
    /\ cleanup.attempted = {"s1", "s2"}
    /\ cleanup.logged = {"s1"}
    /\ sessions["s1"] # NoObj
    /\ sessions["s2"] = NoObj

\* the well-formed lines of a file, in file order
WellFormed(lines) ==
    LET good == SelectSeq(lines, LAMBDA l : l.json)
    IN  [i \in DOMAIN good |-> good[i].entry]

\* the kinds of failure a store operation reports for a reason of its own
StoreFailures == {"INTERNAL_ERROR"}

\* C28: a reload that re-reads the file leaves in the cache exactly the
\* well-formed lines of the file, in file order (for clear: those of them that
\* clear retains), and the operation that triggered it goes on or returns its
\* answer: a malformed line makes none of status, getEntry and clear fail.
C28_MalformedLinesSkipped ==
    [][ \A c \in SeqCallers :
            pc[c] = "rl_read" /\ pc'[c] # "rl_read"
            => /\ entries' = IF call[c].op = "clear" /\ call[c].ret = "clear"
                             THEN retained(WellFormed(jsonl), call[c].opts)
                             ELSE WellFormed(jsonl)
               /\ result'.kind \notin StoreFailures
               /\ pc'[c] = "idle" => result'.kind \in {"ok", "ENTRY_NOT_FOUND"} ]_vars

\* a lookup has returned a record that follows a malformed line in the file
C28_Witness ==
    /\ result.op = "getEntry"
    /\ result.kind = "ok"
    /\ Len(jsonl) = 3
    /\ ~jsonl[2].json
    /\ jsonl[3].json /\ jsonl[3].entry.id = result.args
    /\ Len(entries) = 2
    /\ lastReadPosition = 3

\* C29: a reload leaves the cache and lastReadPosition as they are whenever the
\* size of the file is not greater than lastReadPosition; whenever it is
\* greater the file is read and parsed as a whole, not from lastReadPosition on,
\* and lastReadPosition becomes the size that was found.
C29_ReloadSkipsOrReparsesAll ==
    [][ \A c \in SeqCallers :
            /\ pc[c] = "rl_stat" /\ <<pc'[c], call'[c]>> # <<pc[c], call[c]>>
               => IF FileSize(jsonl) <= lastReadPosition
                  THEN /\ pc'[c] # "rl_read"
                       /\ lastReadPosition' = lastReadPosition
                       /\ entries' = IF call[c].op = "clear" /\ call[c].ret = "clear"
                                     THEN retained(entries, call[c].opts)
                                     ELSE entries
                  ELSE /\ pc'[c] = "rl_read"
                       /\ call'[c].size = FileSize(jsonl)
                       /\ UNCHANGED <<entries, lastReadPosition>>
            /\ pc[c] = "rl_read" /\ pc'[c] # "rl_read"
               => /\ lastReadPosition' = call[c].size
                  /\ entries' = IF call[c].op = "clear" /\ call[c].ret = "clear"
                                THEN retained(WellFormed(jsonl), call[c].opts)
                                ELSE WellFormed(jsonl) ]_vars

\* the store has re-read a file of three records of which it had loaded two
C29_Witness ==
    /\ result.op = "status"
    /\ result.kind = "ok"
    /\ result.data.totalEntries = 3
    /\ Len(entries) = 3
    /\ lastReadPosition = 3
    /\ \A i \in DOMAIN jsonl : jsonl[i].json

\* C25: in every start the write of mitm status `starting` with the port and
\* the host to the shared document completes before the capture process is
\* spawned: a process is created only by a start that is past that write, and a
\* start gets past it only in the step in which the write completes.
C25_StartingPublishedBeforeSpawn ==
    [][ /\ Len(procs') > Len(procs)
           => \E c \in Callers :
                /\ pc[c] = "st_init" /\ pc'[c] = "st_spawn"
                /\ procs'[Len(procs')].sid = call[c].sid
                /\ Len(procs') = Len(procs) + 1
        /\ \A c \in Callers :
                pc[c] # "st_init" /\ pc'[c] = "st_init"
                => LET m == docs'[call[c].sid].mitm
                   IN  /\ pc[c] = "upd_write"
                       /\ m.status = "starting"
                       /\ m.proxyPort = call[c].port
                       /\ m.proxyHost = DefaultHost ]_vars

\* a capture process has just been spawned and the document reads `starting`
\* with the port the process listens on
C25_Witness ==
    \E c \in Callers :
        /\ pc[c] = "st_spawn"
        /\ procs[call[c].pid].alive
        /\ docs[call[c].sid].mitm.status = "starting"
        /\ docs[call[c].sid].mitm.proxyPort = procs[call[c].pid].port

\* the moves of a session's status that are allowed
StatusMoves ==
    {<<"starting", "ready">>, <<"ready", "error">>, <<"starting", "error">>,
     <<"ready", "stopped">>, <<"error", "stopped">>}

\* C22 (as claimed): the status of a session object only moves starting ->
\* ready, ready -> error, starting -> error and, from ready or error, to
\* stopped; never from starting directly to stopped.
C22_StatusMovesAlongLifecycle ==
    [][ \A o \in DOMAIN objs :
            objs'[o].status # objs[o].status
            => <<objs[o].status, objs'[o].status>> \in StatusMoves ]_vars

\* C23 (as claimed): every start call eventually returns, also when the capture
\* process exits during the grace period of spawn.
C23_StartReturns ==
    \A c \in SeqCallers :
        (call[c].op = "start" /\ ~Idle(c)) ~> Idle(c)

\* C26: every kill eventually resolves (on the exit of the process or when the
\* 5 s timer has sent SIGKILL), and so every stop call eventually returns.
C26_StopReturns ==
    \A c \in SeqCallers :
        /\ (pc[c] = "sp_kill") ~> (pc[c] # "sp_kill")
        /\ (call[c].op = "stop" /\ ~Idle(c)) ~> Idle(c)

\* a stop has returned whose kill was resolved by the timer: SIGKILL was sent
\* and the exit event has not arrived
C26_Witness ==
    /\ result.op = "stop"
    /\ result.kind = "ok"
    /\ \E pid \in DOMAIN procs : procs[pid].alive /\ procs[pid].signal = "SIGKILL"

\* C24 (as claimed): a stop of a tracked session that overlaps the shared-state
\* update of the exit handler completes successfully, and the session is
\* removed from the map, under every interleaving of the reads and writes.
C24_StopSurvivesExitUpdate ==
    result.op = "stop" /\ result.kind # "PROXY_NOT_RUNNING"
    => result.kind = "ok" /\ sessions[result.sid] = NoObj

\* C27 (as claimed): when the server exits on a shutdown, every capture process
\* the supervisor still tracks has been sent a termination signal.
C27_TrackedProcessesSignalled ==
    Exited => \A pid \in processes : procs[pid].signal # "null"

Acting ==
    {call[c].sid : c \in {x \in Callers : pc'[x] # pc[x] \/ call'[x] # call[x]}}
    \cup {call'[c].sid : c \in {x \in Callers : pc'[x] # pc[x] \/ call'[x] # call[x]}}

\* the step leaves everything of session t as it is: its entry in the map, its
\* session objects, its store binding, its document, its capture processes and
\* whether the supervisor tracks them, and its log and cache
Untouched(t) ==
    /\ sessions'[t] = sessions[t]
    /\ \A o \in DOMAIN objs : objs[o].sessionId = t => objs'[o] = objs[o]
    /\ \A o \in DOMAIN objs' \ DOMAIN objs : objs'[o].sessionId # t
    /\ trafficStores'[t] = trafficStores[t]
    /\ docs'[t] = docs[t]
    /\ \A p \in DOMAIN procs : procs[p].sid = t
            => procs'[p] = procs[p] /\ (p \in processes' <=> p \in processes)
    /\ \A p \in DOMAIN procs' \ DOMAIN procs : procs'[p].sid # t
    /\ t = LogSession => UNCHANGED storeVars

\* C21: a step of an operation on one session id (a start, a stop, a read or a
\* clear of its log, an exit of its process, an append by its agent) changes
\* nothing of the other session id: every step touches at most one session, and
\* that session is the one of the calls it moves.
C21_SessionsIndependent ==
    [][ /\ \E s \in SessionIds : \A t \in SessionIds \ {s} : Untouched(t)
        /\ \A t \in SessionIds : (Acting \ {"none"} # {} /\ t \notin Acting) => Untouched(t) ]_vars

\* the second session has been started and stopped while the first runs with
\* its store bound and records loaded
C21_Witness ==
    /\ sessions["s1"] # NoObj /\ objs[sessions["s1"]].status = "ready"
    /\ trafficStores["s1"] # NoObj
    /\ docs["s1"].mitm.status = "ready"
    /\ \E p \in processes : procs[p].sid = "s1" /\ procs[p].alive
    /\ entries # <<>>
    /\ sessions["s2"] = NoObj
    /\ docs["s2"].mitm.status = "stopped"
    /\ \E p \in DOMAIN procs : procs[p].sid = "s2" /\ ~procs[p].alive

\* the capture processes of session s that are alive
LiveProcesses(s) == {p \in DOMAIN procs : procs[p].alive /\ procs[p].sid = s}

\* C31 (as claimed): under every interleaving of start calls on one session id,
\* at most one live capture process exists for that session id.
C31_OneLiveProcessPerSession ==
    \A s \in SessionIds : Cardinality(LiveProcesses(s)) <= 1

\* no call is in flight
Quiescent == \A c \in Callers : Idle(c)

\* process p is the one its session in the map records
TrackedBySession(p) ==
    /\ sessions[procs[p].sid] # NoObj
    /\ objs[sessions[procs[p].sid]].pid = p

\* C32 (as claimed): once the calls on a session have returned, every live
\* capture process belongs to a session that is in the map with that process's
\* pid, whatever the interleaving of start and stop was.
C32_LiveProcessHasSession ==
    Quiescent => \A p \in DOMAIN procs : procs[p].alive => TrackedBySession(p)

\* C33 (as claimed): the exit of a capture process that stop has signalled is
\* not treated as a crash: it starts no update that writes status `error` and an
\* exit message to the shared state.
C33_StopExitIsNoCrash ==
    [][ \A pid \in DOMAIN procs :
            procs[pid].alive /\ ~procs'[pid].alive /\ procs[pid].signal # "null"
            => exitUpd'[pid] = NoExitUpdate ]_vars

\* no update started by an exit event is still running
NoPendingUpdate == \A pid \in DOMAIN exitUpd : exitUpd[pid] = NoExitUpdate

\* C34 (as claimed): once every start, stop and asynchronous update has
\* finished, the mitm status of the shared state is the status of the session in
\* the map, and is `stopped` (or was never written) when a stop has removed it.
C34_SharedStatusAgrees ==
    Quiescent /\ NoPendingUpdate
    => \A s \in SessionIds :
          docs[s] # NoDoc
          => IF sessions[s] # NoObj
             THEN docs[s].mitm.status = objs[sessions[s]].status
             ELSE docs[s].mitm.status \in {UndefinedStr, "stopped"}

\* the sessions in the map that are starting or ready
ActiveSessions ==
    {s \in SessionIds : sessions[s] # NoObj /\ objs[sessions[s]].status \in {"starting", "ready"}}

\* C35 (as claimed): no two sessions that are starting or ready at the same time
\* hold the same proxy port.
C35_PortsDistinct ==
    \A s, t \in ActiveSessions :
        s # t => objs[sessions[s]].proxyPort # objs[sessions[t]].proxyPort

\* the step is the exit of process pid, handled as a crash of its session
CrashOf(pid) ==
    /\ procs[pid].alive /\ ~procs'[pid].alive
    /\ exitUpd[pid] = NoExitUpdate /\ exitUpd'[pid] # NoExitUpdate

\* C36 (as claimed): an exit event moves a session to `error` only if the
\* exited process is the one recorded in the pid of the session in the map.
C36_ExitOfRecordedProcessOnly ==
    [][ \A pid \in DOMAIN procs :
            CrashOf(pid) => objs[sessions[procs[pid].sid]].pid = pid ]_vars

\* the records of a sequence, as a set
RecordsOf(es) == {es[i] : i \in DOMAIN es}

\* C37 (as claimed): a clear loses no well-formed record that survives its
\* threshold, also one the agent appends while the clear runs: the rewrite of
\* the file keeps every surviving record the file held, and when clear has
\* returned the store answers its next operation from every record of the file.
C37_SurvivorsNeitherLostNorHidden ==
    [][ /\ \A c \in SeqCallers :
            pc[c] = "clr_write" /\ pc'[c] = "clr_stat"
            => RecordsOf(retained(parseLines(jsonl), call[c].opts))
                    \subseteq RecordsOf(parseLines(jsonl'))
        /\ result'.op = "clear" /\ result'.kind = "ok"
            => RecordsOf(parseLines(jsonl'))
                    \subseteq RecordsOf(StoreSees(jsonl', entries', lastReadPosition')) ]_vars

\* C38 (as claimed): when a read and a clear of one store have run concurrently
\* and both have completed, the cache is the well-formed records of the file and
\* lastReadPosition is the size of the file.
C38_CacheAgreesAfterOverlap ==
    [][ ~Quiescent /\ Quiescent'
        => /\ entries' = parseLines(jsonl')
           /\ lastReadPosition' = FileSize(jsonl') ]_vars

\* C39 (as claimed): while the shared mitm object has status `starting` or
\* `ready` it holds no error message, and while it is `starting` it holds no pid
\* (the process of this run does not exist yet).
C39_NoStaleFields ==
    \A s \in SessionIds :
        /\ docs[s].mitm.status \in {"starting", "ready"} => docs[s].mitm.error = NoMessage
        /\ docs[s].mitm.status = "starting" => docs[s].mitm.pid = Undefined

\* C40 (as claimed): when a stop call has returned, with success or with a
\* failure, the session it was called for is not in the map with status
\* `stopped`, and if it is in the map as `ready` its traffic store is bound.
C40_StopLeavesNoStoppedSession ==
    result.op = "stop" /\ sessions[result.sid] # NoObj
    => /\ objs[sessions[result.sid]].status # "stopped"
       /\ objs[sessions[result.sid]].status = "ready" => trafficStores[result.sid] # NoObj

====
